---- MODULE Spec2Model ----
(***************************************************************************)
(* Model of the news-collector pipeline of japanculture-lp:                *)
(*   Filter/Dedup (scripts/filter.js and its chain-exclusion version),     *)
(*   Translator   (scripts/translate.js and its DeepL version),            *)
(*   Finalizer    (scripts/fetch-news.js: deduplicateById, sort, cap).     *)
(*                                                                         *)
(* A JavaScript string is the sequence of its UTF-16 code units (numbers), *)
(* so trimming, case folding, slicing and matching are computed and not    *)
(* assumed.  An absent value (undefined / null) is the one-element         *)
(* sequence Absent, which no string equals.                                *)
(***************************************************************************)
EXTENDS Integers, Sequences, FiniteSets, TLC

VARIABLES
  pc,        \* position of the running stage
  fvariant,  \* installed filter module: "plain" (filter.js) or "chain"
  tvariant,  \* installed translator module: "google" (translate.js) or "deepl"
  apiKey,    \* TRUE iff process.env.DEEPL_API_KEY is set
  items,     \* the list handed to the running stage
  out,       \* the list the stage returned
  out2,      \* filter: the list a second pass over out returned
  i,         \* translator: loop index (item, or first item of the batch)
  results,   \* translator: results / translatedItems built so far
  origin,    \* translator: for each element of results, its position in items
  pending,   \* translator (google): translatedTitle awaiting the summary call
  events,    \* log of backend requests, delays and warnings, in order
  outcome,   \* translator: per input position, how its backend calls went
  rvariant,  \* installed feed module: "og" (fetch-rss.js) or "tags" (its filterTags version)
  sources,   \* dispatcher: the source descriptors, each with what its upstream answers
  src,       \* dispatcher: index of the source being processed
  allItems,  \* dispatcher: the items collected so far
  cur,       \* feed adapter: the items of the current source
  fillAt,    \* fillMissingImages: index of the item the loop is at
  fetched,   \* fillMissingImages: its counter of article-page fetches
  call,      \* a helper called on its own: the arguments
  ret,       \* a helper called on its own: the value returned
  rssItems,    \* main: what fetchRSSFeeds returned
  productItems, \* main: what fetchNewProducts returned
  mvariant,  \* installed main script: "store" (fetch-news.js), "event" or "first"
  emitted    \* main: output.items, the collection written to news.json

\* the state of the adapters and dispatchers
adapterVars == <<rvariant, mvariant, emitted, sources, src, allItems, cur, fillAt,
                 fetched, call, ret,
                 rssItems, productItems>>

vars == <<pc, fvariant, tvariant, apiKey, items, out, out2, i, results,
          origin, pending, events, outcome, rvariant, mvariant, emitted,
          sources, src, allItems,
          cur, fillAt, fetched, call, ret, rssItems, productItems>>

\* no adapter or dispatcher is running
AdaptersIdle ==
  /\ rvariant = "none"
  /\ mvariant = "none"
  /\ emitted = <<>>
  /\ sources = <<>>
  /\ src = 0
  /\ allItems = <<>>
  /\ cur = <<>>
  /\ fillAt = 0
  /\ fetched = 0
  /\ call = <<>>
  /\ ret = <<>>
  /\ rssItems = <<>>
  /\ productItems = <<>>

-----------------------------------------------------------------------------
(* Bounds of the model *)

\* longest list handed to the filter
MaxFilterLen == 2

\* longest list, of freely chosen items, handed to the translator
MaxTransLen == 2

\* most texts of one DeepL request whose translations are chosen freely
MaxFreeTexts == 4

\* length of the long summary of the inputs
LongSummaryLen == 101

\* items of the longest bulk list beyond one full batch
BulkExtra == 1

\* longest list, of freely chosen items, handed to the finalizer
MaxFinalLen == 3

\* number of ids of the freely chosen items handed to the finalizer
MaxIds == 3

\* items of the longest bulk list of the finalizer beyond MAX_ITEMS
FinalBulkExtra == 1

-----------------------------------------------------------------------------
(* Constants of the program *)

\* translate.js: (item.summary || '').slice(0, 100)
SUMMARY_SLICE == 100

\* DeepL version of translate.js: const BATCH_SIZE = 10
BATCH_SIZE == 10

\* config.js: const MAX_ITEMS = 50
MAX_ITEMS == 50

-----------------------------------------------------------------------------
(* JavaScript values *)

Absent == <<0 - 1>>

\* !x for a string-or-absent x: undefined, null and "" are falsy
Falsy(x) == x = Absent \/ x = <<>>

\* x || ''
OrEmpty(x) == IF Falsy(x) THEN <<>> ELSE x

\* WhiteSpace and LineTerminator code units, as String.prototype.trim strips
IsWhiteSpace(c) ==
  \/ c \in {9, 10, 11, 12, 13, 32, 160, 5760, 8232, 8233, 8239, 8287, 12288, 65279}
  \/ (c >= 8192 /\ c <= 8202)

RECURSIVE TrimStart(_)
TrimStart(s) ==
  IF s # <<>> /\ IsWhiteSpace(Head(s)) THEN TrimStart(Tail(s)) ELSE s

RECURSIVE TrimEnd(_)
TrimEnd(s) ==
  IF s # <<>> /\ IsWhiteSpace(s[Len(s)])
  THEN TrimEnd(SubSeq(s, 1, Len(s) - 1))
  ELSE s

\* String.prototype.trim
Trim(s) == TrimEnd(TrimStart(s))

\* String.prototype.toLowerCase on one code unit (Latin capitals; the kana and
\* kanji of the sources have no case)
LowerUnit(c) == IF c >= 65 /\ c <= 90 THEN c + 32 ELSE c

\* String.prototype.toLowerCase
ToLowerCase(s) == [k \in 1..Len(s) |-> LowerUnit(s[k])]

\* String.prototype.slice(0, n)
Slice0(s, n) == SubSeq(s, 1, IF Len(s) < n THEN Len(s) ELSE n)

\* String.prototype.includes
Includes(text, pat) ==
  \E k \in 0..(Len(text) - Len(pat)) : SubSeq(text, k + 1, k + Len(pat)) = pat

-----------------------------------------------------------------------------
(* Filter/Dedup: chain exclusion *)

EXCLUDE_CHAINS_RAW ==
   <<
      [pattern |-> <<12475, 12502, 12531, 45, 12452, 12524, 12502, 12531>>, isJapanese |-> TRUE],
      [pattern |-> <<12475, 12502, 12531, 12452, 12524, 12502, 12531>>, isJapanese |-> TRUE],
      [pattern |-> <<55, 45, 101, 108, 101, 118, 101, 110>>, isJapanese |-> FALSE],  \* '7-eleven'
      [pattern |-> <<115, 101, 118, 101, 110, 45, 101, 108, 101, 118, 101, 110>>, isJapanese |-> FALSE],  \* 'seven-eleven'
      [pattern |-> <<115, 101, 118, 101, 110, 32, 101, 108, 101, 118, 101, 110>>, isJapanese |-> FALSE],  \* 'seven eleven'
      [pattern |-> <<12501, 12449, 12511, 12510>>, isJapanese |-> TRUE],
      [pattern |-> <<12501, 12449, 12511, 12522, 12540, 12510, 12540, 12488>>, isJapanese |-> TRUE],
      [pattern |-> <<102, 97, 109, 105, 108, 121, 109, 97, 114, 116>>, isJapanese |-> FALSE],  \* 'familymart'
      [pattern |-> <<102, 97, 109, 105, 108, 121, 32, 109, 97, 114, 116>>, isJapanese |-> FALSE],  \* 'family mart'
      [pattern |-> <<12525, 12540, 12477, 12531>>, isJapanese |-> TRUE],
      [pattern |-> <<108, 97, 119, 115, 111, 110>>, isJapanese |-> FALSE],  \* 'lawson'
      [pattern |-> <<12511, 12491, 12473, 12488, 12483, 12503>>, isJapanese |-> TRUE],
      [pattern |-> <<109, 105, 110, 105, 115, 116, 111, 112>>, isJapanese |-> FALSE],  \* 'ministop'
      [pattern |-> <<12510, 12463, 12489, 12490, 12523, 12489>>, isJapanese |-> TRUE],
      [pattern |-> <<12510, 12483, 12463>>, isJapanese |-> TRUE],
      [pattern |-> <<109, 99, 100, 111, 110, 97, 108, 100>>, isJapanese |-> FALSE],  \* 'mcdonald'
      [pattern |-> <<12465, 12531, 12479, 12483, 12461, 12540>>, isJapanese |-> TRUE],
      [pattern |-> <<107, 102, 99>>, isJapanese |-> FALSE],  \* 'kfc'
      [pattern |-> <<12514, 12473, 12496, 12540, 12460, 12540>>, isJapanese |-> TRUE],
      [pattern |-> <<109, 111, 115, 32, 98, 117, 114, 103, 101, 114>>, isJapanese |-> FALSE],  \* 'mos burger'
      [pattern |-> <<12377, 12365, 23478>>, isJapanese |-> TRUE],
      [pattern |-> <<115, 117, 107, 105, 121, 97>>, isJapanese |-> FALSE],  \* 'sukiya'
      [pattern |-> <<12367, 12425, 23551, 21496>>, isJapanese |-> TRUE],
      [pattern |-> <<107, 117, 114, 97, 32, 115, 117, 115, 104, 105>>, isJapanese |-> FALSE],  \* 'kura sushi'
      [pattern |-> <<12480, 12452, 12477, 12540>>, isJapanese |-> TRUE],
      [pattern |-> <<100, 97, 105, 115, 111>>, isJapanese |-> FALSE],  \* 'daiso'
      [pattern |-> <<12475, 12522, 12450>>, isJapanese |-> TRUE],
      [pattern |-> <<115, 101, 114, 105, 97>>, isJapanese |-> FALSE],  \* 'seria'
      [pattern |-> <<12461, 12515, 12531, 12489, 12453>>, isJapanese |-> TRUE],
      [pattern |-> <<99, 97, 110, 32, 100, 111>>, isJapanese |-> FALSE],  \* 'can do'
      [pattern |-> <<12450, 12505, 12452, 12523>>, isJapanese |-> TRUE],
      [pattern |-> <<97, 118, 97, 105, 108>>, isJapanese |-> FALSE],  \* 'avail'
      [pattern |-> <<12375, 12414, 12416, 12425>>, isJapanese |-> TRUE],
      [pattern |-> <<115, 104, 105, 109, 97, 109, 117, 114, 97>>, isJapanese |-> FALSE],  \* 'shimamura'
      [pattern |-> <<12518, 12491, 12463, 12525>>, isJapanese |-> TRUE],
      [pattern |-> <<117, 110, 105, 113, 108, 111>>, isJapanese |-> FALSE],  \* 'uniqlo'
      [pattern |-> <<103, 117>>, isJapanese |-> FALSE],  \* 'gu'
      [pattern |-> <<12452, 12458, 12531>>, isJapanese |-> TRUE],
      [pattern |-> <<97, 101, 111, 110>>, isJapanese |-> FALSE],  \* 'aeon'
      [pattern |-> <<12489, 12531, 12461, 12507, 12540, 12486>>, isJapanese |-> TRUE],
      [pattern |-> <<12489, 12531, 12539, 12461, 12507, 12540, 12486>>, isJapanese |-> TRUE],
      [pattern |-> <<100, 111, 110, 32, 113, 117, 105, 106, 111, 116, 101>>, isJapanese |-> FALSE],  \* 'don quijote'
      [pattern |-> <<12467, 12513, 12480, 29640, 29746>>, isJapanese |-> TRUE],
      [pattern |-> <<107, 111, 109, 101, 100, 97>>, isJapanese |-> FALSE],  \* 'komeda'
      [pattern |-> <<12473, 12479, 12540, 12496, 12483, 12463, 12473>>, isJapanese |-> TRUE],
      [pattern |-> <<115, 116, 97, 114, 98, 117, 99, 107, 115>>, isJapanese |-> FALSE],  \* 'starbucks'
      [pattern |-> <<12460, 12473, 12488>>, isJapanese |-> TRUE],
      [pattern |-> <<103, 117, 115, 116, 111>>, isJapanese |-> FALSE],  \* 'gusto'
      [pattern |-> <<12495, 12483, 12500, 12540, 12475, 12483, 12488>>, isJapanese |-> TRUE],
      [pattern |-> <<104, 97, 112, 112, 121, 32, 115, 101, 116>>, isJapanese |-> FALSE],  \* 'happy set'
      [pattern |-> <<104, 97, 112, 112, 121, 32, 109, 101, 97, 108>>, isJapanese |-> FALSE]  \* 'happy meal'
   >>

KEEP_KEYWORDS ==
   << <<19968, 30058, 12367, 12376>>,                               \* ichiban kuji, in Japanese
      <<105, 99, 104, 105, 98, 97, 110, 32, 107, 117, 106, 105>> >> \* 'ichiban kuji'

\* \w of a RegExp without the u flag
IsWordUnit(c) ==
  \/ (c >= 48 /\ c <= 57)
  \/ (c >= 65 /\ c <= 90)
  \/ (c >= 97 /\ c <= 122)
  \/ c = 95

\* Canonicalize of the i flag: a code unit above 127 never folds onto ASCII
CanonUnit(c) == IF c >= 97 /\ c <= 122 THEN c - 32 ELSE c

\* \b at offset p of text (between code units p and p + 1)
WordBoundary(text, p) ==
  LET before == p >= 1 /\ IsWordUnit(text[p])
      after  == p < Len(text) /\ IsWordUnit(text[p + 1])
  IN  before # after

\* new RegExp(`\\b${escaped}\\b`, 'i').test(text); no pattern of the list holds
\* a character the escaping rewrites, so the pattern matches itself
WordBoundaryTest(text, pat) ==
  \E k \in 0..(Len(text) - Len(pat)) :
     /\ \A j \in 1..Len(pat) : CanonUnit(text[k + j]) = CanonUnit(pat[j])
     /\ WordBoundary(text, k)
     /\ WordBoundary(text, k + Len(pat))

\* CHAIN_MATCHERS[n](text)
ChainMatcher(entry, text) ==
  IF entry.isJapanese
  THEN Includes(text, entry.pattern)
  ELSE WordBoundaryTest(text, entry.pattern)

\* the keep keywords left out: a faulty variant, against which C22 is tested
isChainCollabNoKeep(title, summary, originalTitle) ==
  LET text == OrEmpty(title) \o <<32>> \o OrEmpty(summary) \o <<32>> \o OrEmpty(originalTitle)
  IN  \E n \in 1..Len(EXCLUDE_CHAINS_RAW) : ChainMatcher(EXCLUDE_CHAINS_RAW[n], text)

isChainCollab(title, summary, originalTitle) ==
  LET text == OrEmpty(title) \o <<32>> \o OrEmpty(summary) \o <<32>> \o OrEmpty(originalTitle)
      matchesChain == \E n \in 1..Len(EXCLUDE_CHAINS_RAW) :
                         ChainMatcher(EXCLUDE_CHAINS_RAW[n], text)
      textLower == ToLowerCase(text)
      isSpecialty == \E n \in 1..Len(KEEP_KEYWORDS) :
                        Includes(textLower, ToLowerCase(KEEP_KEYWORDS[n]))
  IN  matchesChain /\ ~isSpecialty

-----------------------------------------------------------------------------
(* Filter/Dedup *)

\* the validity test without its trim() calls: a faulty variant, against
\* which C1 is tested
IsInvalidNoTrim(item) == Falsy(item.title) \/ Falsy(item.link)

\* !item.title || !item.title.trim() || !item.link || !item.link.trim()
IsInvalid(item) ==
  \/ Falsy(item.title) \/ Falsy(Trim(item.title))
  \/ Falsy(item.link)  \/ Falsy(Trim(item.link))

\* item.title.trim().toLowerCase()
NormalizedTitle(item) == ToLowerCase(Trim(item.title))

\* The loop of filterAnimeGoods from item k on, with the titles seen and the
\* items kept so far; chain tells whether the chain exclusion is compiled in.
RECURSIVE FilterLoop(_, _, _, _, _)
FilterLoop(list, k, seenTitles, filtered, chain) ==
  IF k > Len(list) THEN filtered
  ELSE
    LET item == list[k] IN
    IF IsInvalid(item)
    THEN FilterLoop(list, k + 1, seenTitles, filtered, chain)
    ELSE IF NormalizedTitle(item) \in seenTitles
    THEN FilterLoop(list, k + 1, seenTitles, filtered, chain)
    ELSE IF chain /\ isChainCollab(item.title, item.summary, item.originalTitle)
    THEN FilterLoop(list, k + 1, seenTitles \cup {NormalizedTitle(item)}, filtered, chain)
    ELSE FilterLoop(list, k + 1, seenTitles \cup {NormalizedTitle(item)},
                    Append(filtered, item), chain)

\* the loop started one item late: a faulty variant, against which C3 is
\* tested
filterAnimeGoodsSkipFirst(list) == FilterLoop(list, 2, {}, <<>>, FALSE)

\* filterAnimeGoods of scripts/filter.js
filterAnimeGoods(list) == FilterLoop(list, 1, {}, <<>>, FALSE)

\* filterAnimeGoods of the chain-exclusion version of the module
filterAnimeGoodsChain(list) == FilterLoop(list, 1, {}, <<>>, TRUE)

\* the filter module that is installed
RunFilter(list) ==
  IF fvariant = "chain" THEN filterAnimeGoodsChain(list) ELSE filterAnimeGoods(list)

-----------------------------------------------------------------------------
(* Items *)

\* code units used by the inputs
SP    == <<32>>
LinkU == <<117>>
LinkV == <<118>>

Item(id, title, summary, link, language, translated, originalTitle, publishedAt) ==
  [id |-> id, title |-> title, summary |-> summary, link |-> link,
   language |-> language, translated |-> translated,
   originalTitle |-> originalTitle, publishedAt |-> publishedAt]

\* publishedAt as new Date(publishedAt).getTime() reads it: a timestamp, or
\* an unparseable / missing value (NaN)
Time(t) == [valid |-> TRUE, t |-> t]
Unparseable == [valid |-> FALSE, t |-> 0]

\* all lists over S of length at most n
ListsUpTo(S, n) == UNION {[1..m -> S] : m \in 0..n}

\* the id an adapter derives from the link (generateId(link)): the digest is
\* modelled by the text it is the digest of, so equal links give equal ids
\* and different links different ids (sha256 has no collision on the inputs)
IdOfLink(link) == link

FilterTitles == {Absent, SP, <<97>>, <<32, 65>>, <<71, 85>>, <<103, 117, 32>>}
FilterLinks == {<<>>, SP, LinkU, LinkV}
FilterSummaries == {<<>>, KEEP_KEYWORDS[1]}

FilterItems ==
  {Item(IdOfLink(l), t, s, l, "ja", FALSE, Absent, Time(1)) :
     t \in FilterTitles, l \in FilterLinks, s \in FilterSummaries}

\* texts that name a chain, a keep keyword, or neither: 'Lawson' (a Latin
\* chain name in mixed case), 'available' (holds the chain name 'avail' inside
\* a word), 'fig', the chain name of EXCLUDE_CHAINS_RAW[10] in Japanese,
\* 'Ichiban Kuji' (a keep keyword in mixed case) and the Japanese keep keyword
TxtLawson == <<76, 97, 119, 115, 111, 110>>
TxtAvailable == <<97, 118, 97, 105, 108, 97, 98, 108, 101>>
TxtFig == <<102, 105, 103>>
TxtLawsonJa == EXCLUDE_CHAINS_RAW[10].pattern
TxtIchibanKuji == <<73, 99, 104, 105, 98, 97, 110, 32, 75, 117, 106, 105>>

\* items whose title, summary or originalTitle name a chain or a keep keyword
ChainItems ==
  {Item(IdOfLink(LinkU), t, s, LinkU, "ja", FALSE, o, Time(1)) :
     t \in {TxtLawson, TxtAvailable, TxtFig},
     s \in {<<>>, TxtLawsonJa, TxtIchibanKuji},
     o \in {Absent, TxtLawsonJa, KEEP_KEYWORDS[1]}}

-----------------------------------------------------------------------------
(* The filter stage, run twice *)

InitFilter ==
  /\ AdaptersIdle
  /\ pc = "filter"
  /\ fvariant \in {"plain", "chain"}
  /\ tvariant = "none"
  /\ apiKey = FALSE
  /\ items \in ListsUpTo(FilterItems, MaxFilterLen) \cup ListsUpTo(ChainItems, MaxFilterLen)
  /\ out = <<>>
  /\ out2 = <<>>
  /\ i = 0
  /\ results = <<>>
  /\ origin = <<>>
  /\ pending = Absent
  /\ events = <<>>
  /\ outcome = <<>>

\* allItems = filterAnimeGoods(allItems)
Filter ==
  /\ pc = "filter"
  /\ out' = RunFilter(items)
  /\ pc' = "filtered"
  /\ UNCHANGED adapterVars
  /\ UNCHANGED <<fvariant, tvariant, apiKey, items, out2, i, results, origin,
                 pending, events, outcome>>

\* the filter applied to its own output
FilterAgain ==
  /\ pc = "filtered"
  /\ out2' = RunFilter(out)
  /\ pc' = "refiltered"
  /\ UNCHANGED adapterVars
  /\ UNCHANGED <<fvariant, tvariant, apiKey, items, out, i, results, origin,
                 pending, events, outcome>>

NextFilter == Filter \/ FilterAgain

SpecFilter == InitFilter /\ [][NextFilter]_vars

-----------------------------------------------------------------------------
(* Claims on Filter/Dedup *)

Filtered == pc \in {"filtered", "refiltered"}

Admissible(list) ==
  {k \in 1..Len(list) :
     /\ ~IsInvalid(list[k])
     /\ ~(fvariant = "chain"
          /\ isChainCollab(list[k].title, list[k].summary, list[k].originalTitle))}

\* number of positions of list holding an item with normalized title t
CountTitle(list, t) ==
  Cardinality({k \in 1..Len(list) : NormalizedTitle(list[k]) = t})

\* C2: among the items with non-empty title and link that share a normalized
\* title (and that no other rule removes) exactly one survives, the first of
\* them in input order: none is dropped as a duplicate of an item that was
\* not kept.
C2_FirstOfEachTitleSurvives ==
  Filtered =>
    \A k \in Admissible(items) :
       LET t == NormalizedTitle(items[k])
           first == CHOOSE m \in Admissible(items) :
                      /\ NormalizedTitle(items[m]) = t
                      /\ \A n \in Admissible(items) :
                            NormalizedTitle(items[n]) = t => m <= n
       IN  /\ CountTitle(out, t) = 1
           /\ \E n \in 1..Len(out) : out[n] = items[first]

\* C3: the filter is idempotent: a second pass over its own output returns
\* the same items in the same order.
C3_FilterIdempotent == pc = "refiltered" => out2 = out

\* C3 witness: the first pass removed something and kept something, and the
\* second pass has run
C3_Witness ==
  /\ pc = "refiltered"
  /\ out # <<>>
  /\ Len(out) < Len(items)

-----------------------------------------------------------------------------
(* Translator: the backend *)

\* texts a successful backend call may return
BackendTexts == {<<69>>, <<101, 32>>}

\* what one call of the Google endpoint may do: raise (network, timeout,
\* non-2xx), answer without the segment array, or answer with a text
GoogleResponses ==
  {[kind |-> "throw", text |-> <<>>], [kind |-> "unusable", text |-> <<>>]}
    \cup {[kind |-> "ok", text |-> t] : t \in BackendTexts}

\* translateText(text) skips the backend for an absent or blank text
SkipsBackend(text) == Falsy(text) \/ Len(Trim(text)) = 0

\* translateText(text) of translate.js, given what the backend does
translateText(text, resp) ==
  IF SkipsBackend(text) THEN text
  ELSE IF resp.kind = "ok" THEN resp.text
  ELSE text

\* what one call of the DeepL endpoint for m texts may do: raise, answer
\* without translations, or answer with a list of translations (as long as
\* the request, or one short)
DeepLResponses(m) ==
  {[kind |-> "throw", texts |-> <<>>], [kind |-> "unusable", texts |-> <<>>]}
    \cup {[kind |-> "ok", texts |-> l] :
            l \in IF m <= MaxFreeTexts
                  THEN [1..m -> BackendTexts] \cup [1..(m - 1) -> BackendTexts]
                  ELSE {[k \in 1..m |-> t] : t \in BackendTexts}}

\* translateTextsWithDeepL(texts, apiKey), given what the backend does
translateTextsWithDeepL(texts, resp) ==
  IF texts = <<>> THEN <<>>
  ELSE IF resp.kind = "ok" THEN resp.texts
  ELSE texts

\* arr[k] of a JavaScript array (k counted from 1 here): undefined past the end
At(arr, k) == IF k >= 1 /\ k <= Len(arr) THEN arr[k] ELSE Absent

\* x || y
OrElse(x, y) == IF Falsy(x) THEN y ELSE x

-----------------------------------------------------------------------------
(* Translator: translate.js (Google, one call per text) *)

\* item.language !== 'ja': the item is pushed as it is
GooglePassesThrough(item) == item.language # "ja"

\* (item.summary || '').slice(0, 100)
ShortSummary(item) == Slice0(OrEmpty(item.summary), SUMMARY_SLICE)

\* { ...item, title, summary, originalTitle: item.title, language: 'en', translated: true }
GoogleTranslated(item, translatedTitle, translatedSummary) ==
  [item EXCEPT !.title = translatedTitle, !.summary = translatedSummary,
               !.originalTitle = item.title, !.language = "en",
               !.translated = TRUE]

\* an entry of the log: a backend request ("req") for the items at the input
\* positions at, carrying their title, their summary, or all their texts; a
\* delay; a warning
Event(k, at) == [k |-> k, at |-> at, part |-> "all"]

\* the request translateText makes for one text of the item at position p
TextRequest(p, part) == [k |-> "req", at |-> {p}, part |-> part]

\* const results = []; the loop starts at the first item
GoogleStart ==
  /\ pc = "t_start" /\ tvariant = "google"
  /\ pc' = "t_loop" /\ i' = 1
  /\ UNCHANGED adapterVars
  /\ UNCHANGED <<fvariant, tvariant, apiKey, items, out, out2, results, origin,
                 pending, events, outcome>>

\* an item that is not Japanese
GooglePass ==
  /\ pc = "t_loop" /\ tvariant = "google" /\ i <= Len(items)
  /\ GooglePassesThrough(items[i])
  /\ results' = Append(results, items[i])
  /\ origin' = Append(origin, i)
  /\ i' = i + 1
  /\ UNCHANGED adapterVars
  /\ UNCHANGED <<pc, fvariant, tvariant, apiKey, items, out, out2, pending,
                 events, outcome>>

\* translatedTitle = await translateText(item.title), then the 300 ms delay
GoogleTitle ==
  /\ pc = "t_loop" /\ tvariant = "google" /\ i <= Len(items)
  /\ ~GooglePassesThrough(items[i])
  /\ \E resp \in GoogleResponses :
       LET text == items[i].title IN
       /\ pending' = translateText(text, resp)
       /\ IF SkipsBackend(text)
          THEN /\ resp.kind = "throw"   \* no call: one successor
               /\ events' = Append(events, Event("delay", {}))
               /\ outcome' = outcome
          ELSE /\ events' = events \o <<TextRequest(i, "title"), Event("delay", {})>>
               /\ outcome' = [outcome EXCEPT ![i] = Append(@, resp.kind)]
  /\ pc' = "t_summary"
  /\ UNCHANGED adapterVars
  /\ UNCHANGED <<fvariant, tvariant, apiKey, items, out, out2, i, results, origin>>

\* translatedSummary = shortSummary ? await translateText(shortSummary) : '',
\* the 300 ms delay, and results.push of the translated copy
GoogleSummary ==
  /\ pc = "t_summary" /\ tvariant = "google"
  /\ \E resp \in GoogleResponses :
       LET shortSummary == ShortSummary(items[i])
           called == ~Falsy(shortSummary) /\ ~SkipsBackend(shortSummary)
           translatedSummary ==
             IF Falsy(shortSummary) THEN <<>> ELSE translateText(shortSummary, resp)
       IN
       /\ results' = Append(results, GoogleTranslated(items[i], pending, translatedSummary))
       /\ IF called
          THEN /\ events' = events \o <<TextRequest(i, "summary"), Event("delay", {})>>
               /\ outcome' = [outcome EXCEPT ![i] = Append(@, resp.kind)]
          ELSE /\ resp.kind = "throw"   \* no call: one successor
               /\ events' = Append(events, Event("delay", {}))
               /\ outcome' = outcome
  /\ origin' = Append(origin, i)
  /\ pending' = Absent
  /\ i' = i + 1
  /\ pc' = "t_loop"
  /\ UNCHANGED adapterVars
  /\ UNCHANGED <<fvariant, tvariant, apiKey, items, out, out2>>

\* return results
GoogleReturn ==
  /\ pc = "t_loop" /\ tvariant = "google" /\ i > Len(items)
  /\ out' = results
  /\ pc' = "translated"
  /\ UNCHANGED adapterVars
  /\ UNCHANGED <<fvariant, tvariant, apiKey, items, out2, i, results, origin,
                 pending, events, outcome>>

-----------------------------------------------------------------------------
(* Translator: the DeepL version of translate.js (one call per batch) *)

\* the key test left out: a faulty variant, against which C7 is tested
NoKeyNeverTested == FALSE

\* if (!apiKey)
NoKeyConfigured == ~apiKey

\* item.language === 'ja' && !item.translated
NeedsTranslation(item) == item.language = "ja" /\ ~item.translated

\* positions of the items of jaItems, in input order
JaPositions(list) ==
  SelectSeq([k \in 1..Len(list) |-> k], LAMBDA k : NeedsTranslation(list[k]))

\* positions of the items of otherItems, in input order
OtherPositions(list) ==
  SelectSeq([k \in 1..Len(list) |-> k], LAMBDA k : ~NeedsTranslation(list[k]))

\* textsToTranslate: title and summary of each item of the batch, interleaved
TextsToTranslate(batch) ==
  [k \in 1..(2 * Len(batch)) |->
     IF k % 2 = 1 THEN batch[(k + 1) \div 2].title ELSE batch[k \div 2].summary]

\* the copy of batch[j] built from the answer (title at 2j, summary at 2j + 1,
\* counted from 0 in the code)
DeepLTranslated(item, translatedTitle, translatedSummary) ==
  [item EXCEPT !.originalTitle = item.title,
               !.title = OrElse(translatedTitle, item.title),
               !.summary = OrElse(translatedSummary, item.summary),
               !.translated = TRUE]

Identity(n) == [k \in 1..n |-> k]

\* the key test, and the split into jaItems and otherItems
DeepLStart ==
  /\ pc = "t_start" /\ tvariant = "deepl"
  /\ IF NoKeyConfigured
     THEN /\ events' = Append(events, Event("warn", {}))
          /\ out' = items
          /\ origin' = Identity(Len(items))
          /\ pc' = "translated"
          /\ i' = i
     ELSE IF JaPositions(items) = <<>>
     THEN /\ events' = events
          /\ out' = items
          /\ origin' = Identity(Len(items))
          /\ pc' = "translated"
          /\ i' = i
     ELSE /\ events' = events
          /\ out' = out
          /\ origin' = origin
          /\ pc' = "t_batch"
          /\ i' = 0
  /\ UNCHANGED adapterVars
  /\ UNCHANGED <<fvariant, tvariant, apiKey, items, out2, results, pending, outcome>>

\* the delay left out after every batch: a faulty variant, against which
\* C21 is tested
NoBatchDelay(first, n) == FALSE

\* if (i + BATCH_SIZE < jaItems.length): another batch follows the one that
\* starts at first
BatchFollows(first, n) == first + BATCH_SIZE < n

\* one turn of the batch loop: the request, the copies, the delay before the
\* next batch
DeepLBatch ==
  /\ pc = "t_batch" /\ tvariant = "deepl"
  /\ i < Len(JaPositions(items))
  /\ LET ja == JaPositions(items)
         last == IF i + BATCH_SIZE < Len(ja) THEN i + BATCH_SIZE ELSE Len(ja)
         batchPos == SubSeq(ja, i + 1, last)
         batch == [j \in 1..Len(batchPos) |-> items[batchPos[j]]]
         texts == TextsToTranslate(batch)
     IN  \E resp \in DeepLResponses(Len(texts)) :
           LET translated == translateTextsWithDeepL(texts, resp) IN
           /\ results' = results \o
                [j \in 1..Len(batch) |->
                   DeepLTranslated(batch[j], At(translated, 2 * j - 1), At(translated, 2 * j))]
           /\ origin' = origin \o batchPos
           /\ events' = events \o <<Event("req", {batchPos[j] : j \in 1..Len(batchPos)})>>
                          \o (IF BatchFollows(i, Len(ja))
                              THEN <<Event("delay", {})>> ELSE <<>>)
           /\ outcome' = [p \in 1..Len(items) |->
                            IF \E j \in 1..Len(batchPos) : batchPos[j] = p
                            THEN Append(outcome[p], resp.kind) ELSE outcome[p]]
  /\ i' = i + BATCH_SIZE
  /\ UNCHANGED adapterVars
  /\ UNCHANGED <<pc, fvariant, tvariant, apiKey, items, out, out2, pending>>

\* the translated items put first: a faulty variant, against which C28 is
\* tested
TranslatedFirst(otherItems, translatedItems) == translatedItems \o otherItems

\* [...otherItems, ...translatedItems]
OthersFirst(otherItems, translatedItems) == otherItems \o translatedItems

\* return [...otherItems, ...translatedItems]
DeepLReturn ==
  /\ pc = "t_batch" /\ tvariant = "deepl"
  /\ i >= Len(JaPositions(items))
  /\ LET other == OtherPositions(items) IN
       /\ out' = OthersFirst([j \in 1..Len(other) |-> items[other[j]]], results)
       /\ origin' = OthersFirst(other, origin)
  /\ pc' = "translated"
  /\ UNCHANGED adapterVars
  /\ UNCHANGED <<fvariant, tvariant, apiKey, items, out2, i, results, pending,
                 events, outcome>>

-----------------------------------------------------------------------------
(* The translator stage *)

LongSummary == [k \in 1..LongSummaryLen |-> 97]

TransItems ==
  {Item(1, t, s, LinkU, lt[1], lt[2], IF lt[2] THEN <<111>> ELSE Absent, Time(1)) :
     t \in {<<97>>, <<98>>}, s \in {<<>>, LongSummary},
     lt \in {<<"ja", FALSE>>, <<"en", FALSE>>, <<"ja", TRUE>>}}

\* lists of Japanese items that fill one batch and more
BulkLists ==
  {[k \in 1..n |-> Item(k, <<97>>, <<98>>, LinkU, "ja", FALSE, Absent, Time(1))] :
     n \in BATCH_SIZE..(BATCH_SIZE + BulkExtra)}

InitTranslate ==
  /\ AdaptersIdle
  /\ pc = "t_start"
  /\ fvariant = "none"
  /\ tvariant \in {"google", "deepl"}
  /\ apiKey \in BOOLEAN
  /\ \/ items \in ListsUpTo(TransItems, MaxTransLen)
     \/ tvariant = "deepl" /\ apiKey /\ items \in BulkLists
  /\ out = <<>>
  /\ out2 = <<>>
  /\ i = 0
  /\ results = <<>>
  /\ origin = <<>>
  /\ pending = Absent
  /\ events = <<>>
  /\ outcome = [k \in 1..Len(items) |-> <<>>]

NextTranslate ==
  \/ GoogleStart \/ GooglePass \/ GoogleTitle \/ GoogleSummary \/ GoogleReturn
  \/ DeepLStart \/ DeepLBatch \/ DeepLReturn

SpecTranslate == InitTranslate /\ [][NextTranslate]_vars

-----------------------------------------------------------------------------
(* Claims on the Translator *)

Translated == pc = "translated"

\* every backend call made for the item at input position p failed (raised,
\* or answered without a usable body), and at least one was made
AllCallsFailed(p) ==
  /\ outcome[p] # <<>>
  /\ \A k \in 1..Len(outcome[p]) : outcome[p][k] \in {"throw", "unusable"}

RequestMadeFor(p) ==
  \E k \in 1..Len(events) : events[k].k = "req" /\ p \in events[k].at

CountEvents(kind) == Cardinality({k \in 1..Len(events) : events[k].k = kind})

\* C4: in the translator's output every item the stage marked translated has
\* originalTitle present and language 'en', in each version of the module.
C4_TranslatedImpliesOriginalAndEn ==
  Translated =>
    \A n \in 1..Len(out) :
       (out[n].translated /\ ~items[origin[n]].translated) =>
          /\ out[n].originalTitle # Absent
          /\ out[n].language = "en"

\* C5: an item whose backend calls failed leaves the stage with exactly the
\* title and summary it entered with.
C5_FailedKeepsOriginalText ==
  Translated =>
    \A n \in 1..Len(out) :
       AllCallsFailed(origin[n]) =>
          /\ out[n].title = items[origin[n]].title
          /\ out[n].summary = items[origin[n]].summary

\* C6: an item whose translation requests failed is not marked translated.
C6_FailedNotMarkedTranslated ==
  Translated =>
    \A n \in 1..Len(out) :
       (AllCallsFailed(origin[n]) /\ ~items[origin[n]].translated) =>
          ~out[n].translated

\* the stage did nothing: same list, no backend request, one warning
NoOpWithOneWarning ==
  /\ out = items
  /\ CountEvents("req") = 0
  /\ CountEvents("warn") = 1

C8_OthersPassUnchanged ==
  Translated =>
    \A p \in 1..Len(items) :
       (items[p].language # "ja" \/ items[p].translated) =>
          /\ \E n \in 1..Len(out) : origin[n] = p /\ out[n] = items[p]
          /\ ~RequestMadeFor(p)

-----------------------------------------------------------------------------
(* Finalizer *)

\* the loop of deduplicateById from item k on
RECURSIVE DedupLoop(_, _, _, _)
DedupLoop(list, k, seen, unique) ==
  IF k > Len(list) THEN unique
  ELSE IF list[k].id \in seen
  THEN DedupLoop(list, k + 1, seen, unique)
  ELSE DedupLoop(list, k + 1, seen \cup {list[k].id}, Append(unique, list[k]))

\* deduplicateById keeping the last item of each id: a faulty variant,
\* against which C9 is tested
deduplicateByIdKeepLast(list) ==
  LET n == Len(list)
      keep == SelectSeq([k \in 1..n |-> k],
                        LAMBDA k : \A m \in (k + 1)..n : list[m].id # list[k].id)
  IN  [j \in 1..Len(keep) |-> list[keep[j]]]

deduplicateById(list) == DedupLoop(list, 1, {}, <<>>)

\* the comparator of the sort, on two publishedAt values: dateB - dateA, and
\* a NaN result counts as +0
SortCompare(a, b) == IF a.valid /\ b.valid THEN b.t - a.t ELSE 0

\* whether the comparator is a consistent comparator on the values of list
ConsistentComparator(list) ==
  LET D == {list[k].publishedAt : k \in 1..Len(list)} IN
  \A a, b, c \in D :
     /\ (SortCompare(a, b) = 0 /\ SortCompare(b, c) = 0) => SortCompare(a, c) = 0
     /\ (SortCompare(a, b) < 0 /\ SortCompare(b, c) < 0) => SortCompare(a, c) < 0
     /\ (SortCompare(a, b) > 0 /\ SortCompare(b, c) > 0) => SortCompare(a, c) > 0

\* x put into the sorted list behind every element that does not sort after it
RECURSIVE InsertSorted(_, _)
InsertSorted(sorted, x) ==
  IF sorted = <<>> THEN <<x>>
  ELSE IF SortCompare(sorted[Len(sorted)].publishedAt, x.publishedAt) <= 0
  THEN Append(sorted, x)
  ELSE Append(InsertSorted(SubSeq(sorted, 1, Len(sorted) - 1), x), sorted[Len(sorted)])

RECURSIVE StableSort(_)
StableSort(list) ==
  IF list = <<>> THEN <<>>
  ELSE InsertSorted(StableSort(SubSeq(list, 1, Len(list) - 1)), list[Len(list)])

\* what allItems.sort(comparator) may leave: the stable order for a consistent
\* comparator, an implementation-defined order of the same items otherwise
SortOutcomes(list) ==
  IF ConsistentComparator(list)
  THEN {StableSort(list)}
  ELSE {[k \in 1..Len(list) |-> list[f[k]]] : f \in Permutations(1..Len(list))}

\* allItems.length > MAX_ITEMS ? allItems.slice(0, MAX_ITEMS) : allItems
Limit(list) == IF Len(list) > MAX_ITEMS THEN SubSeq(list, 1, MAX_ITEMS) ELSE list

FinalDates == {Time(1), Time(3), Unparseable}

FinalItems ==
  {Item(id, <<97>>, <<>>, LinkU, "en", FALSE, Absent, d) : id \in 1..MaxIds, d \in FinalDates}

\* lists of parseable items with distinct ids around the cap
FinalBulkLists ==
  {[k \in 1..n |-> Item(k, <<97>>, <<>>, LinkU, "en", FALSE, Absent, Time(k % 3))] :
     n \in (MAX_ITEMS - 1)..(MAX_ITEMS + FinalBulkExtra)}

InitFinal ==
  /\ AdaptersIdle
  /\ pc = "f_dedup"
  /\ fvariant = "none"
  /\ tvariant = "none"
  /\ apiKey = FALSE
  /\ items \in ListsUpTo(FinalItems, MaxFinalLen) \cup FinalBulkLists
  /\ out = <<>>
  /\ out2 = <<>>
  /\ i = 0
  /\ results = <<>>
  /\ origin = <<>>
  /\ pending = Absent
  /\ events = <<>>
  /\ outcome = <<>>

\* allItems = deduplicateById(allItems)
Dedup ==
  /\ pc = "f_dedup"
  /\ out' = deduplicateById(items)
  /\ pc' = "f_sort"
  /\ UNCHANGED adapterVars
  /\ UNCHANGED <<fvariant, tvariant, apiKey, items, out2, i, results, origin,
                 pending, events, outcome>>

\* allItems.sort(...)
Sort ==
  /\ pc = "f_sort"
  /\ \E sorted \in SortOutcomes(out) : out' = sorted
  /\ pc' = "f_limit"
  /\ UNCHANGED adapterVars
  /\ UNCHANGED <<fvariant, tvariant, apiKey, items, out2, i, results, origin,
                 pending, events, outcome>>

\* the cap to MAX_ITEMS
LimitItems ==
  /\ pc = "f_limit"
  /\ out' = Limit(out)
  /\ pc' = "finalized"
  /\ UNCHANGED adapterVars
  /\ UNCHANGED <<fvariant, tvariant, apiKey, items, out2, i, results, origin,
                 pending, events, outcome>>

NextFinal == Dedup \/ Sort \/ LimitItems

SpecFinal == InitFinal /\ [][NextFinal]_vars

-----------------------------------------------------------------------------
(* Claims on the Finalizer *)

\* position in list of the first item with the given id
FirstWithId(list, id) ==
  CHOOSE k \in 1..Len(list) :
     list[k].id = id /\ \A m \in 1..(k - 1) : list[m].id # id

\* C9: the output of deduplicateById has pairwise distinct ids, holds every id
\* of the input, retains for each id the first item with that id, and keeps
\* the retained items in input order.
C9_DedupFirstWins ==
  pc = "f_sort" =>
    /\ \A m, n \in 1..Len(out) : out[m].id = out[n].id => m = n
    /\ \A k \in 1..Len(items) : \E n \in 1..Len(out) : out[n].id = items[k].id
    /\ \A n \in 1..Len(out) :
          /\ \E k \in 1..Len(items) : items[k].id = out[n].id
          /\ out[n] = items[FirstWithId(items, out[n].id)]
    /\ \A m, n \in 1..Len(out) :
          m < n => FirstWithId(items, out[m].id) < FirstWithId(items, out[n].id)

\* C9 witness: a later item with the id of an earlier, different item was
\* dropped, and two ids remain
C9_Witness ==
  /\ pc = "f_sort"
  /\ Len(out) = 2
  /\ \E a, b \in 1..Len(items) : a < b /\ items[a].id = items[b].id /\ items[a] # items[b]

Min(a, b) == IF a < b THEN a ELSE b

\* C10: for every input list with distinct ids, whatever its publishedAt
\* values, the emitted list is non-increasing in the timestamps, has
\* min(inputLength, MAX_ITEMS) items, and loses no item to an unparseable date
\* (an unparseable date is given no place of its own in the order here).
C10_SortedAndCapped ==
  (pc = "finalized" /\ \A a, b \in 1..Len(items) : items[a].id = items[b].id => a = b) =>
    /\ \A m, n \in 1..Len(out) :
          (m < n /\ out[m].publishedAt.valid /\ out[n].publishedAt.valid) =>
             out[m].publishedAt.t >= out[n].publishedAt.t
    /\ Len(out) = Min(Len(items), MAX_ITEMS)
    /\ Len(items) <= MAX_ITEMS =>
          \A k \in 1..Len(items) : \E n \in 1..Len(out) : out[n] = items[k]

-----------------------------------------------------------------------------
(* Adapters: the helpers of fetch-rss.js *)

\* the stages after the adapters are not running
StagesIdle ==
  /\ fvariant = "none"
  /\ tvariant = "none"
  /\ apiKey = FALSE
  /\ items = <<>>
  /\ out = <<>>
  /\ out2 = <<>>
  /\ i = 0
  /\ results = <<>>
  /\ pending = Absent
  /\ outcome = <<>>

\* F(s), with s evaluated once and handed to F as a value
Forced(F(_), s) == CHOOSE r \in {F(v) : v \in {s}} : TRUE

\* F(s, t), with s and t evaluated once and handed to F as values
Forced2(F(_, _), s, t) == CHOOSE r \in {F(v, w) : v \in {s}, w \in {t}} : TRUE

\* longest freely chosen string handed to truncate
MaxStrLen == 4

\* largest freely chosen maxLen handed to truncate
MaxTruncLen == 5

\* length of the long strings handed to truncate and to the adapters
LongLen == 250

\* the summary length the adapters ask truncate for
SUMMARY_MAX == 200

\* '...'
Ellipsis == <<46, 46, 46>>

\* String.prototype.slice(0, e): a negative e counts from the end
SliceEnd(s, e) ==
  LET to == IF e < 0
            THEN (IF Len(s) + e < 0 THEN 0 ELSE Len(s) + e)
            ELSE (IF e > Len(s) THEN Len(s) ELSE e)
  IN SubSeq(s, 1, to)

\* if (!str || str.length <= maxLen) return str || '';
\* return str.slice(0, maxLen - 3).trim() + '...';
truncate(str, maxLen) ==
  LET On(v) == IF Falsy(v) \/ Len(v) <= maxLen
               THEN OrEmpty(v)
               ELSE Forced(Trim, SliceEnd(v, maxLen - 3)) \o Ellipsis
  IN Forced(On, str)

\* n copies of the code unit c
Repeat(c, n) == [k \in 1..n |-> c]

\* the strings handed to truncate: every short string of letters and blanks,
\* no string at all, and long strings with and without white space
ShortStrings == ListsUpTo({97, 32}, MaxStrLen)

LongStrings ==
  {Repeat(97, LongLen),
   [k \in 1..LongLen |-> IF k = SUMMARY_MAX - 3 THEN 32 ELSE 97],
   [k \in 1..LongLen |-> IF k % 2 = 0 THEN 32 ELSE 97]}

TruncateCalls ==
  {[str |-> s, maxLen |-> m] : s \in ShortStrings \cup {Absent}, m \in 0..MaxTruncLen}
    \cup {[str |-> s, maxLen |-> SUMMARY_MAX + d] : s \in LongStrings, d \in {0, 50, 51}}

InitTruncate ==
  /\ StagesIdle
  /\ origin = <<>>
  /\ pc = "tr_call"
  /\ events = <<>>
  /\ rvariant = "none"
  /\ mvariant = "none"
  /\ emitted = <<>>
  /\ sources = <<>>
  /\ src = 0
  /\ allItems = <<>>
  /\ cur = <<>>
  /\ fillAt = 0
  /\ fetched = 0
  /\ call \in TruncateCalls
  /\ ret = <<>>
  /\ rssItems = <<>>
  /\ productItems = <<>>

\* ret = truncate(str, maxLen)
Truncate ==
  /\ pc = "tr_call"
  /\ ret' = truncate(call.str, call.maxLen)
  /\ pc' = "tr_returned"
  /\ UNCHANGED <<fvariant, tvariant, apiKey, items, out, out2, i, results,
                 origin, pending, events, outcome, rvariant, mvariant, emitted, sources, src,
                 allItems, cur, fillAt, fetched, call, rssItems, productItems>>

NextTruncate == Truncate

SpecTruncate == InitTruncate /\ [][NextTruncate]_vars

\* C19: once truncate(str, maxLen) has returned, for every string and every
\* maxLen >= 0: the result is never longer than maxLen; a string of length
\* <= maxLen comes back unchanged; a longer one comes back as its first
\* maxLen - 3 characters, trimmed, followed by the 3-character marker.
C19_TruncateWithinMaxLen ==
  (pc = "tr_returned" /\ call.str # Absent /\ call.maxLen >= 0) =>
    /\ Len(ret) <= call.maxLen
    /\ Len(call.str) <= call.maxLen => ret = call.str
    /\ Len(call.str) > call.maxLen =>
         ret = Trim(SubSeq(call.str, 1, call.maxLen - 3)) \o Ellipsis


-----------------------------------------------------------------------------
(* Feed Adapter: fetch-rss.js and its filterTags version *)

\* the positions of s, in order
Positions(s) == [k \in 1..Len(s) |-> k]

\* str.replace(pat, rep) with a global literal pattern that cannot overlap
\* itself (an entity: '&' first and only first) and a one-unit replacement:
\* every occurrence is replaced
ReplaceAll(s, pat, rep) ==
  LET On(v) ==
        LET starts(k) == k + Len(pat) - 1 <= Len(v) /\ SubSeq(v, k, k + Len(pat) - 1) = pat
            inside(k) == \E m \in 1..(Len(pat) - 1) : k - m >= 1 /\ starts(k - m)
            Rebuilt(kept) ==
              [j \in 1..Len(kept) |-> IF starts(kept[j]) THEN rep[1] ELSE v[kept[j]]] \o <<>>
        IN Forced(Rebuilt, SelectSeq(Positions(v), LAMBDA k : ~inside(k)))
  IN Forced(On, s)

\* .replace(/<[^>]*>/g, ''): from a '<' up to the next '>', when there is one
RemoveTags(s) ==
  LET On(v) ==
        LET closed(k) == \E q \in k..Len(v) : v[q] = 62
            opened(k) == \E q \in 1..k : v[q] = 60 /\ \A j \in q..(k - 1) : v[j] # 62
            Rebuilt(kept) == [j \in 1..Len(kept) |-> v[kept[j]]] \o <<>>
        IN Forced(Rebuilt, SelectSeq(Positions(v), LAMBDA k : ~(closed(k) /\ opened(k))))
  IN Forced(On, s)

\* .replace(/\s+/g, ' ')
CollapseSpace(s) ==
  LET On(v) ==
        LET Rebuilt(kept) ==
              [j \in 1..Len(kept) |-> IF IsWhiteSpace(v[kept[j]]) THEN 32 ELSE v[kept[j]]]
                \o <<>>
        IN Forced(Rebuilt,
                  SelectSeq(Positions(v),
                            LAMBDA k : ~IsWhiteSpace(v[k]) \/ k = 1 \/ ~IsWhiteSpace(v[k - 1])))
  IN Forced(On, s)

\* stripHtml: tags out, the six entities decoded in the order of the code,
\* white space collapsed, trimmed
stripHtml(html) ==
  IF Falsy(html) THEN <<>>
  ELSE LET a == RemoveTags(html)
           b == ReplaceAll(a, <<38, 110, 98, 115, 112, 59>>, <<32>>)
           c == ReplaceAll(b, <<38, 97, 109, 112, 59>>, <<38>>)
           d == ReplaceAll(c, <<38, 108, 116, 59>>, <<60>>)
           e == ReplaceAll(d, <<38, 103, 116, 59>>, <<62>>)
           f == ReplaceAll(e, <<38, 113, 117, 111, 116, 59>>, <<34>>)
           g == ReplaceAll(f, <<38, 35, 48, 51, 57, 59>>, <<39>>)
       IN Forced(Trim, CollapseSpace(g))

\* Max number of article pages fetched for OG images per source
OG_IMAGE_FETCH_LIMIT == 10

\* new Date().toISOString(): the time of the run, later than every upstream date
Now == 9

\* the image URLs of the inputs: one found in the feed, one found on the
\* article page
ImgFeed == <<105>>
ImgPage == <<111>>

\* an entry of a parsed feed, as rss-parser hands it over: link is
\* item.link || item.guid, content is the first non-empty of content:encoded,
\* contentSnippet, content and description, pubDate is item.isoDate ||
\* item.pubDate (NoDate, a date, or a text no Date parses), image is what
\* normalizeImageUrl(extractImage(item)) finds, and page is what the article
\* page of the entry answers to fetchOgImage (Absent: error or no og:image)
FeedEntry(link, title, content, pubDate, categories, image, page) ==
  [link |-> link, title |-> title, content |-> content, pubDate |-> pubDate,
   categories |-> categories, image |-> image, page |-> page]

\* source.filterTags of a source configured without tags (undefined)
NoTags == <<Absent>>

\* a feed source of the configuration together with what its URL answers:
\* ok is FALSE when parser.parseURL rejects
FeedSource(name, language, filterTags, ok, entries) ==
  [name |-> name, type |-> "rss", language |-> language,
   filterTags |-> filterTags, ok |-> ok, entries |-> entries, pages |-> <<>>]

\* a faulty variant of matchesFilterTags that compares without folding the
\* case; the tag-filter claim is tested against it
matchesFilterTagsCaseSensitive(item, filterTags) ==
  IF filterTags = NoTags \/ Len(filterTags) = 0 THEN TRUE
  ELSE \E c \in 1..Len(item.categories) : \E t \in 1..Len(filterTags) :
         Includes(OrEmpty(item.categories[c]), filterTags[t])

\* matchesFilterTags(item, filterTags)
matchesFilterTags(item, filterTags) ==
  IF filterTags = NoTags \/ Len(filterTags) = 0 THEN TRUE
  ELSE \E c \in 1..Len(item.categories) : \E t \in 1..Len(filterTags) :
         Includes(ToLowerCase(OrEmpty(item.categories[c])),
                  ToLowerCase(filterTags[t]))

\* the increasing sequence of the members of a set of positions
RECURSIVE Ascending(_)
Ascending(S) ==
  IF S = {} THEN <<>>
  ELSE LET m == CHOOSE x \in S : \A y \in S : x <= y
       IN <<m>> \o Ascending(S \ {m})

\* the positions in feed.items of the entries the version keeps
FeedKept(variant, source) ==
  IF variant = "tags" /\ source.filterTags # NoTags /\ Len(source.filterTags) > 0
  THEN Ascending({k \in 1..Len(source.entries) :
                    matchesFilterTags(source.entries[k], source.filterTags)})
  ELSE [k \in 1..Len(source.entries) |-> k]

\* feedItems: feed.items, filtered by the tags in the version that has them
FeedEntries(variant, source) ==
  [k \in 1..Len(FeedKept(variant, source)) |->
     source.entries[FeedKept(variant, source)[k]]]

\* for each item of the source, the source and the entry it was made from
FeedOrigin(variant, s, source) ==
  [k \in 1..Len(FeedKept(variant, source)) |-> <<s, FeedKept(variant, source)[k]>>]

\* item.isoDate || item.pubDate || null when the entry carries neither
NoDate == [valid |-> FALSE, t |-> 0 - 1]

\* new Date(pubDate).toISOString() throws a RangeError on an invalid date
DateThrows(entry) == entry.pubDate # NoDate /\ ~entry.pubDate.valid

\* the body of the try block throws: parseURL rejects, or the map callback
\* throws on one of the entries
FeedThrows(variant, source) ==
  \/ ~source.ok
  \/ \E k \in 1..Len(FeedEntries(variant, source)) :
       DateThrows(FeedEntries(variant, source)[k])

\* the item the map callback returns for an entry
FeedItem(source, entry) ==
  Item(IdOfLink(OrEmpty(entry.link)),
       stripHtml(OrEmpty(entry.title)),
       truncate(stripHtml(entry.content), SUMMARY_MAX),
       OrEmpty(entry.link),
       source.language, FALSE, Absent,
       IF entry.pubDate = NoDate THEN Time(Now) ELSE entry.pubDate)
    @@ [image |-> entry.image, source |-> source.name]

\* items = feedItems.map(...)
FeedItems(variant, source) ==
  LET kept == FeedEntries(variant, source)
  IN [k \in 1..Len(kept) |-> FeedItem(source, kept[k])]

\* a faulty variant of the limit test that never stops the fetches; the
\* backfill bound is tested against it
LimitNeverReached(n) == FALSE

\* fetched >= OG_IMAGE_FETCH_LIMIT
LimitReached(n) == n >= OG_IMAGE_FETCH_LIMIT

\* items.filter((i) => !i.image).length
MissingCount(list) == Cardinality({k \in 1..Len(list) : Falsy(list[k].image)})



\* most sources handed to fetchRSSFeeds in the runs over whole-feed shapes
MaxFeedSources == 2

\* most entries of the feed in the runs of the tag filter
MaxTagEntries == 2

\* how far beyond OG_IMAGE_FETCH_LIMIT the feeds of the backfill runs go
BackfillExtra == 1

\* the name of the k-th configured source
SourceName(k) == <<48 + k>>

\* the sources take their names from their place in the configuration
Named(list) == [k \in 1..Len(list) |-> [list[k] EXCEPT !.name = SourceName(k)]]

\* whole-feed shapes: the URL fails; an empty feed; one entry; a good entry
\* between two entries whose dates do not parse; two good entries
GoodEntryA == FeedEntry(LinkU, <<65, 60, 98, 62>>, <<60, 112, 62, 97, 38, 97, 109, 112, 59, 32, 32, 98>>,
                        Time(2), <<>>, ImgFeed, Absent)
GoodEntryB == FeedEntry(LinkV, <<66>>, Absent, NoDate, <<>>, Absent, ImgPage)
BadDateEntry == FeedEntry(LinkU, <<67>>, <<99>>, Unparseable, <<>>, ImgFeed, Absent)

FeedShapes ==
  {FeedSource(<<>>, "ja", NoTags, FALSE, <<>>),
   FeedSource(<<>>, "ja", NoTags, TRUE, <<>>),
   FeedSource(<<>>, "en", NoTags, TRUE, <<GoodEntryA>>),
   FeedSource(<<>>, "ja", NoTags, TRUE, <<GoodEntryB, BadDateEntry, GoodEntryA>>),
   FeedSource(<<>>, "ja", NoTags, TRUE, <<GoodEntryB, GoodEntryA>>)}

\* the runs of the tag filter: one source, its filterTags absent, empty, one
\* tag in capitals, or two tags; entries without category, with a category
\* that holds a tag in another case, with two categories, with a category
\* that only shares letters with a tag
TagLists == {NoTags, <<>>, <<<<65>>>>, <<<<99, 100>>, <<120>>>>}

TagEntries ==
  {FeedEntry(LinkU, <<65>>, <<97>>, Time(1), cats, ImgFeed, Absent) :
     cats \in {<<>>, <<<<88, 97>>>>, <<<<98>>, <<67, 68>>>>, <<<<99>>, <<100>>>>}}

TagSources ==
  {FeedSource(<<>>, "ja", tags, TRUE, es) :
     tags \in TagLists, es \in ListsUpTo(TagEntries, MaxTagEntries)}

\* the runs of the image backfill: feeds of about OG_IMAGE_FETCH_LIMIT entries
\* that lack an image, have a link and whose article page gives one; at most
\* one entry differs (it has an image, or no link, or its page gives nothing)
NeedyEntry == FeedEntry(LinkU, <<65>>, <<97>>, Time(1), <<>>, Absent, ImgPage)

OddEntries ==
  {[NeedyEntry EXCEPT !.image = ImgFeed],
   [NeedyEntry EXCEPT !.link = <<>>],
   [NeedyEntry EXCEPT !.page = Absent]}

BackfillSources ==
  {FeedSource(<<>>, "ja", NoTags, TRUE,
              [k \in 1..n |-> IF k = at THEN odd ELSE NeedyEntry]) :
     n \in (OG_IMAGE_FETCH_LIMIT - 1)..(OG_IMAGE_FETCH_LIMIT + BackfillExtra),
     at \in 0..(OG_IMAGE_FETCH_LIMIT + BackfillExtra),
     odd \in OddEntries}

BackfillRuns ==
  {<<s>> : s \in BackfillSources}
    \cup {<<FeedSource(<<>>, "ja", NoTags, TRUE,
                       [k \in 1..(OG_IMAGE_FETCH_LIMIT + 1) |-> NeedyEntry]), s>> :
            s \in BackfillSources}

InitFeed ==
  /\ StagesIdle
  /\ origin = <<>>
  /\ pc = "rss_loop"
  /\ events = <<>>
  /\ rvariant \in {"og", "tags"}
  /\ mvariant = "none"
  /\ emitted = <<>>
  /\ \E list \in ListsUpTo(FeedShapes, MaxFeedSources)
                   \cup {<<s>> : s \in TagSources}
                   \cup BackfillRuns :
       sources = Named(list)
  /\ src = 1
  /\ allItems = <<>>
  /\ cur = <<>>
  /\ fillAt = 0
  /\ fetched = 0
  /\ call = <<>>
  /\ ret = <<>>
  /\ rssItems = <<>>
  /\ productItems = <<>>

\* the state of the later stages, but for origin, which the dispatchers use
\* to record for each collected item its source and its upstream record
stageVars == <<fvariant, tvariant, apiKey, items, out, out2, i, results,
               pending, outcome>>

mainVars == <<rssItems, productItems>>

\* the loop of fetchRSSFeeds is at a feed source
AtFeedSource == src <= Len(sources) /\ sources[src].type = "rss"

\* a faulty variant of the catch block, placed around the loop instead of
\* inside it: the first source that throws ends the loop; the isolation of
\* the sources is tested against it
RssFailEndsLoop ==
  /\ pc = "rss_loop" /\ AtFeedSource
  /\ FeedThrows(rvariant, sources[src])
  /\ events' = Append(events, [k |-> "error", src |-> src])
  /\ src' = Len(sources) + 1
  /\ UNCHANGED stageVars
  /\ UNCHANGED mainVars
  /\ UNCHANGED origin
  /\ UNCHANGED <<pc, rvariant, mvariant, emitted, sources, allItems, cur, fillAt, fetched, call, ret>>

\* the catch block: the source is logged and the loop goes on
RssFail ==
  /\ pc = "rss_loop" /\ AtFeedSource
  /\ FeedThrows(rvariant, sources[src])
  /\ events' = Append(events, [k |-> "error", src |-> src])
  /\ src' = src + 1
  /\ UNCHANGED stageVars
  /\ UNCHANGED mainVars
  /\ UNCHANGED origin
  /\ UNCHANGED <<pc, rvariant, mvariant, emitted, sources, allItems, cur, fillAt, fetched, call, ret>>

\* no item lacks an image (or the version has no backfill):
\* allItems.push(...items)
RssPush ==
  /\ pc = "rss_loop" /\ AtFeedSource
  /\ ~FeedThrows(rvariant, sources[src])
  /\ rvariant = "tags" \/ MissingCount(FeedItems(rvariant, sources[src])) = 0
  /\ allItems' = allItems \o FeedItems(rvariant, sources[src])
  /\ origin' = origin \o FeedOrigin(rvariant, src, sources[src])
  /\ src' = src + 1
  /\ UNCHANGED stageVars
  /\ UNCHANGED mainVars
  /\ UNCHANGED <<pc, rvariant, mvariant, emitted, sources, events, cur, fillAt, fetched, call, ret>>

\* missingCount > 0: fillMissingImages(items) is entered, let fetched = 0
RssFill ==
  /\ pc = "rss_loop" /\ AtFeedSource
  /\ ~FeedThrows(rvariant, sources[src])
  /\ rvariant = "og" /\ MissingCount(FeedItems(rvariant, sources[src])) > 0
  /\ cur' = FeedItems(rvariant, sources[src])
  /\ fillAt' = 1
  /\ fetched' = 0
  /\ pc' = "rss_fill"
  /\ UNCHANGED stageVars
  /\ UNCHANGED mainVars
  /\ UNCHANGED origin
  /\ UNCHANGED <<rvariant, mvariant, emitted, sources, src, allItems, events, call, ret>>

\* if (item.image) continue
FillHasImage ==
  /\ pc = "rss_fill" /\ fillAt <= Len(cur)
  /\ ~Falsy(cur[fillAt].image)
  /\ fillAt' = fillAt + 1
  /\ UNCHANGED stageVars
  /\ UNCHANGED mainVars
  /\ UNCHANGED origin
  /\ UNCHANGED <<pc, rvariant, mvariant, emitted, sources, src, allItems, events, cur, fetched, call, ret>>

\* if (!item.link) continue
FillNoLink ==
  /\ pc = "rss_fill" /\ fillAt <= Len(cur)
  /\ Falsy(cur[fillAt].image)
  /\ ~LimitReached(fetched)
  /\ Falsy(cur[fillAt].link)
  /\ fillAt' = fillAt + 1
  /\ UNCHANGED stageVars
  /\ UNCHANGED mainVars
  /\ UNCHANGED origin
  /\ UNCHANGED <<pc, rvariant, mvariant, emitted, sources, src, allItems, events, cur, fetched, call, ret>>

\* fetched++; ogImage = await fetchOgImage(item.link);
\* if (ogImage) item.image = ogImage
FillFetch ==
  /\ pc = "rss_fill" /\ fillAt <= Len(cur)
  /\ Falsy(cur[fillAt].image)
  /\ ~LimitReached(fetched)
  /\ ~Falsy(cur[fillAt].link)
  /\ fetched' = fetched + 1
  /\ LET ogImage == sources[src].entries[fillAt].page IN
       /\ events' = Append(events, [k |-> "og", src |-> src, at |-> fillAt,
                                    image |-> cur[fillAt].image,
                                    link |-> cur[fillAt].link, got |-> ogImage])
       /\ cur' = IF Falsy(ogImage) THEN cur
                 ELSE [cur EXCEPT ![fillAt].image = ogImage]
  /\ fillAt' = fillAt + 1
  /\ UNCHANGED stageVars
  /\ UNCHANGED mainVars
  /\ UNCHANGED origin
  /\ UNCHANGED <<pc, rvariant, mvariant, emitted, sources, src, allItems, call, ret>>

\* if (fetched >= OG_IMAGE_FETCH_LIMIT) break; the items go to allItems
FillBreak ==
  /\ pc = "rss_fill" /\ fillAt <= Len(cur)
  /\ Falsy(cur[fillAt].image)
  /\ LimitReached(fetched)
  /\ allItems' = allItems \o cur
  /\ origin' = origin \o FeedOrigin(rvariant, src, sources[src])
  /\ cur' = <<>>
  /\ src' = src + 1
  /\ pc' = "rss_loop"
  /\ UNCHANGED stageVars
  /\ UNCHANGED mainVars
  /\ UNCHANGED <<rvariant, mvariant, emitted, sources, events, fillAt, fetched, call, ret>>

\* the loop is over: return items; allItems.push(...items)
FillReturn ==
  /\ pc = "rss_fill" /\ fillAt > Len(cur)
  /\ allItems' = allItems \o cur
  /\ origin' = origin \o FeedOrigin(rvariant, src, sources[src])
  /\ cur' = <<>>
  /\ src' = src + 1
  /\ pc' = "rss_loop"
  /\ UNCHANGED stageVars
  /\ UNCHANGED mainVars
  /\ UNCHANGED <<rvariant, mvariant, emitted, sources, events, fillAt, fetched, call, ret>>

\* return allItems
RssReturn ==
  /\ pc = "rss_loop" /\ ~AtFeedSource
  /\ pc' = "rss_returned"
  /\ UNCHANGED stageVars
  /\ UNCHANGED mainVars
  /\ UNCHANGED origin
  /\ UNCHANGED <<rvariant, mvariant, emitted, sources, src, allItems, events, cur, fillAt, fetched, call, ret>>

NextFeed ==
  \/ RssFail \/ RssPush \/ RssFill
  \/ FillHasImage \/ FillNoLink \/ FillFetch \/ FillBreak \/ FillReturn
  \/ RssReturn

SpecFeed == InitFeed /\ [][NextFeed]_vars


-----------------------------------------------------------------------------
(* Claims on the Feed Adapter *)

\* the items of the s-th source in what fetchRSSFeeds collected
Emitted(s) == SelectSeq(allItems, LAMBDA x : x.source = sources[s].name)

\* an item without the image the backfill may have added
Core(item) == [item EXCEPT !.image = Absent]

CoreOf(list) == [k \in 1..Len(list) |-> Core(list[k])]

\* an entry's category holds one of the tags, whatever the case of the letters
CategoryHoldsTag(entry, tags) ==
  \E c \in 1..Len(entry.categories) : \E t \in 1..Len(tags) :
    Includes(ToLowerCase(entry.categories[c]), ToLowerCase(tags[t]))

\* the items of the entries of source that the tag filter of C16 lets through
ItemsOfTagged(source) ==
  LET tagged == IF source.filterTags = NoTags \/ source.filterTags = <<>>
                THEN source.entries
                ELSE SelectSeq(source.entries,
                               LAMBDA e : CategoryHoldsTag(e, source.filterTags))
  IN [k \in 1..Len(tagged) |-> Core(FeedItem(source, tagged[k]))]

TagFilterHolds ==
  pc = "rss_returned" =>
    \A s \in 1..Len(sources) :
      ~FeedThrows(rvariant, sources[s]) =>
        CoreOf(Emitted(s)) = ItemsOfTagged(sources[s])

OgEvents(s) == {e \in 1..Len(events) : events[e].k = "og" /\ events[e].src = s}

\* C20: in one source run fillMissingImages fetches at most
\* OG_IMAGE_FETCH_LIMIT (10) article pages however many items lack an image;
\* it fetches only for items without image and with a non-empty link; its
\* counter counts the fetches of the current source only (it starts at 0 for
\* every source); an article fetch that gives nothing leaves that item
\* without image, and the source still contributes all its items.
C20_BackfillBounded ==
  /\ \A s \in 1..Len(sources) : Cardinality(OgEvents(s)) <= OG_IMAGE_FETCH_LIMIT
  /\ \A e \in 1..Len(events) :
       events[e].k = "og" => Falsy(events[e].image) /\ events[e].link # <<>>
  /\ pc = "rss_fill" => fetched = Cardinality(OgEvents(src))
  /\ pc = "rss_returned" =>
       \A e \in 1..Len(events) :
         (events[e].k = "og" /\ Falsy(events[e].got)) =>
           /\ Len(Emitted(events[e].src)) = Len(sources[events[e].src].entries)
           /\ Falsy(Emitted(events[e].src)[events[e].at].image)

\* two sources with more than 10 items lacking an image each: 10 fetches for
\* the first, 10 again for the second, one of them giving nothing
C20_Witness ==
  /\ pc = "rss_returned" /\ Len(sources) = 2
  /\ MissingCount(FeedItems(rvariant, sources[1])) > OG_IMAGE_FETCH_LIMIT
  /\ MissingCount(FeedItems(rvariant, sources[2])) > OG_IMAGE_FETCH_LIMIT
  /\ Cardinality(OgEvents(1)) = OG_IMAGE_FETCH_LIMIT
  /\ Cardinality(OgEvents(2)) = OG_IMAGE_FETCH_LIMIT
  /\ \E e \in OgEvents(2) : Falsy(events[e].got)

\* C15, on the Feed Adapter: when the extraction of one record of a fetched
\* feed throws (here: a publication date that does not parse), only that
\* record is skipped; the records before and after it are emitted.
C15_OnlyBadRecordSkipped ==
  pc = "rss_returned" =>
    \A s \in 1..Len(sources) :
      sources[s].ok =>
        LET kept == FeedEntries(rvariant, sources[s])
            good == SelectSeq(kept, LAMBDA e : ~DateThrows(e))
        IN CoreOf(Emitted(s)) = [k \in 1..Len(good) |-> Core(FeedItem(sources[s], good[k]))]


-----------------------------------------------------------------------------
(* HTML-scrape adapters: scripts/fetch-products.js *)

\* 'http://'
HTTP == <<104, 116, 116, 112, 58, 47, 47>>

\* 'https://'
HTTPS == <<104, 116, 116, 112, 115, 58, 47, 47>>

\* 'https:'
HTTPS_COLON == <<104, 116, 116, 112, 115, 58>>

\* '/'
SLASH == <<47>>

\* '//'
SLASH2 == <<47, 47>>

\* 'https://www.animate.co.jp'
ANIMATE_BASE == <<104, 116, 116, 112, 115, 58, 47, 47, 119, 119, 119, 46, 97, 110, 105, 109, 97, 116, 101, 46, 99, 111, 46, 106, 112>>

\* 'https://bsp-prize.jp'
BANPRESTO_BASE == <<104, 116, 116, 112, 115, 58, 47, 47, 98, 115, 112, 45, 112, 114, 105, 122, 101, 46, 106, 112>>

\* '/news/'
NEWS_PATH == <<47, 110, 101, 119, 115, 47>>

\* '/article/'
ARTICLE_PATH == <<47, 97, 114, 116, 105, 99, 108, 101, 47>>

\* 'javascript:'
JAVASCRIPT_COLON == <<106, 97, 118, 97, 115, 99, 114, 105, 112, 116, 58>>

\* '#'
HASH == <<35>>

\* 'Animate news: '
ANIMATE_PREFIX == <<65, 110, 105, 109, 97, 116, 101, 32, 110, 101, 119, 115, 58, 32>>

\* 'Banpresto Prize: '
BANPRESTO_PREFIX == <<66, 97, 110, 112, 114, 101, 115, 116, 111, 32, 80, 114, 105, 122, 101, 58, 32>>

\* ' - '
DASH == <<32, 45, 32>>

\* ['top', 'home', 'mobile site', 'menu', 'search', 'cart', 'login', 'sign in', '']
JUNK_TITLES ==
  {<<116, 111, 112>>,
   <<104, 111, 109, 101>>,
   <<109, 111, 98, 105, 108, 101, 32, 115, 105, 116, 101>>,
   <<109, 101, 110, 117>>,
   <<115, 101, 97, 114, 99, 104>>,
   <<99, 97, 114, 116>>,
   <<108, 111, 103, 105, 110>>,
   <<115, 105, 103, 110, 32, 105, 110>>,
   <<>>}

\* String.prototype.startsWith, endsWith
StartsWith(s, p) == Len(s) >= Len(p) /\ SubSeq(s, 1, Len(p)) = p
EndsWith(s, p) == Len(s) >= Len(p) /\ SubSeq(s, Len(s) - Len(p) + 1, Len(s)) = p

\* .replace(/[\t\n\r]+/g, ' ')
CollapseBreaks(s) ==
  LET On(v) ==
        LET break(k) == v[k] \in {9, 10, 13}
            Rebuilt(kept) ==
              [j \in 1..Len(kept) |-> IF break(kept[j]) THEN 32 ELSE v[kept[j]]] \o <<>>
        IN Forced(Rebuilt,
                  SelectSeq(Positions(v), LAMBDA k : ~break(k) \/ k = 1 \/ ~break(k - 1)))
  IN Forced(On, s)

\* /^\d+\s*$/ matches: digits, then nothing but white space
OnlyDigits(s) ==
  \E n \in 1..Len(s) :
    /\ \A k \in 1..n : s[k] >= 48 /\ s[k] <= 57
    /\ \A k \in (n + 1)..Len(s) : IsWhiteSpace(s[k])

\* cleanTitle(raw)
cleanTitle(raw) ==
  IF Falsy(raw) THEN <<>>
  ELSE LET WithoutNumber(a) == IF OnlyDigits(a) THEN <<>> ELSE a
       IN Forced(Trim, Forced(WithoutNumber, CollapseSpace(CollapseBreaks(raw))))

\* isValidProduct(title, link)
isValidProduct(title, link) ==
  LET On(t, l) ==
        /\ ~(Falsy(t) \/ Len(t) < 3)
        /\ ToLowerCase(t) \notin JUNK_TITLES
        /\ ~(Includes(l, JAVASCRIPT_COLON) \/ EndsWith(l, HASH))
  IN Forced2(On, title, link)

\* makeAbsolute(url, base)
makeAbsolute(url, base) ==
  IF Falsy(url) THEN <<>>
  ELSE LET u == Trim(url) IN
       IF StartsWith(u, HTTP) \/ StartsWith(u, HTTPS) THEN u
       ELSE IF StartsWith(u, SLASH2) THEN HTTPS_COLON \o u
       ELSE IF StartsWith(u, SLASH) THEN base \o u
       ELSE base \o SLASH \o u

\* parseLooseDate(dateText): the date read from the text, or the time of the
\* run when there is no text or no Date parses it
parseLooseDate(date) == IF date.valid THEN date ELSE Time(Now)

\* number of selectors of the primary list of scrapeAnimateNews, and of
\* prizeSelectors of scrapeBanpresto
ANIMATE_SELECTORS == 12
BANPRESTO_SELECTORS == 12

\* the per-source caps of scrapeAnimateNews and scrapeBanpresto
ANIMATE_CAP == 10
BANPRESTO_CAP == 15

\* the title and series cuts of the summaries
TITLE_MAX == 200
SUMMARY_TITLE_MAX == 150
SERIES_TITLE_MAX == 120

\* what cheerio finds in an element matched by a selector: heading is the
\* text of its h2, h3, ... descendants, linkText and href those of its first
\* anchor (href Absent without one), img is what
\* normalizeImage(extractBestImage(...)) gives for its first <img> (Absent
\* without one), date the text of its date descendant as a Date reads it,
\* series the text of its series descendant
Card(heading, linkText, href, img, date, series) ==
  [heading |-> heading, linkText |-> linkText, href |-> href, img |-> img,
   date |-> date, series |-> series]

\* an <a> of the document: its href, its text, and what
\* normalizeImage(extractBestImage(...)) gives for its first <img> child
Anchor(href, text, img) == [href |-> href, text |-> text, img |-> img]

\* what one URL of a scrape source answers: ok is FALSE when fetchHtml
\* rejects; matches[n] are the elements $(selectors[n]) finds; anchors are
\* the elements $('a') finds
Page(ok, matches, anchors) == [ok |-> ok, matches |-> matches, anchors |-> anchors]

\* a scrape source of the configuration with what its URLs answer: ok is
\* FALSE when source.urls is not iterable, so that the scraper itself throws
ScrapeSource(name, type, language, ok, pages) ==
  [name |-> name, type |-> type, language |-> language, filterTags |-> NoTags,
   ok |-> ok, entries |-> <<>>, pages |-> pages]

\* the last selector of the list that matches an element: a faulty variant,
\* against which C24 is tested
LastMatching(page) ==
  IF \E n \in 1..Len(page.matches) : page.matches[n] # <<>>
  THEN CHOOSE n \in 1..Len(page.matches) :
         /\ page.matches[n] # <<>>
         /\ \A m \in (n + 1)..Len(page.matches) : page.matches[m] = <<>>
  ELSE 0

\* the first selector of the list that matches an element, 0 if none does
FirstMatching(page) ==
  IF \E n \in 1..Len(page.matches) : page.matches[n] # <<>>
  THEN CHOOSE n \in 1..Len(page.matches) :
         /\ page.matches[n] # <<>>
         /\ \A m \in 1..(n - 1) : page.matches[m] = <<>>
  ELSE 0

\* the item scrapeAnimateNews pushes for an element of the primary list
AnimateCardItem(source, el) ==
  LET rawTitle == IF ~Falsy(el.heading) THEN el.heading ELSE OrEmpty(el.linkText)
      Built(title, link) ==
        Item(IdOfLink(link), truncate(title, TITLE_MAX),
             ANIMATE_PREFIX \o truncate(title, SUMMARY_TITLE_MAX),
             link, source.language, FALSE, Absent, parseLooseDate(el.date))
          @@ [image |-> el.img, source |-> source.name]
  IN Forced2(Built, cleanTitle(rawTitle), makeAbsolute(OrEmpty(el.href), ANIMATE_BASE))

\* the item the fallback of scrapeAnimateNews pushes for an anchor
AnimateAnchorItem(source, a) ==
  LET Built(title, link) ==
        Item(IdOfLink(link), truncate(title, TITLE_MAX),
             ANIMATE_PREFIX \o truncate(title, SUMMARY_TITLE_MAX),
             link, source.language, FALSE, Absent, Time(Now))
          @@ [image |-> a.img, source |-> source.name]
  IN Forced2(Built, cleanTitle(a.text), makeAbsolute(OrEmpty(a.href), ANIMATE_BASE))

\* elements.each over the elements of the first matching selector
RECURSIVE AnimateCards(_, _, _, _)
AnimateCards(source, els, k, acc) ==
  IF k > Len(els) \/ Len(acc) >= ANIMATE_CAP THEN acc
  ELSE LET it == AnimateCardItem(source, els[k])
           title == cleanTitle(IF ~Falsy(els[k].heading) THEN els[k].heading
                               ELSE OrEmpty(els[k].linkText))
           Rest(pushed) == AnimateCards(source, els, k + 1, pushed)
       IN Forced(Rest, IF isValidProduct(title, it.link) THEN Append(acc, it) ELSE acc)

\* $('a').each of the fallback
RECURSIVE AnimateAnchors(_, _, _, _)
AnimateAnchors(source, as, k, acc) ==
  IF k > Len(as) \/ Len(acc) >= ANIMATE_CAP THEN acc
  ELSE LET href == OrEmpty(as[k].href)
           it == AnimateAnchorItem(source, as[k])
           Rest(pushed) == AnimateAnchors(source, as, k + 1, pushed)
       IN Forced(Rest,
            IF (Includes(href, NEWS_PATH) \/ Includes(href, ARTICLE_PATH))
               /\ isValidProduct(cleanTitle(as[k].text), it.link)
            THEN Append(acc, it) ELSE acc)

\* the body of the loop over source.urls of scrapeAnimateNews, for one page
AnimatePage(source, page, acc) ==
  IF ~page.ok THEN acc
  ELSE IF FirstMatching(page) # 0
       THEN LET Cards(els) == AnimateCards(source, els, 1, acc)
            IN Forced(Cards, page.matches[FirstMatching(page)])
       ELSE AnimateAnchors(source, page.anchors, 1, acc)

\* scrapeAnimateNews(source)
RECURSIVE AnimatePages(_, _, _)
AnimatePages(source, k, acc) ==
  IF k > Len(source.pages) THEN acc
  ELSE LET Rest(pushed) == AnimatePages(source, k + 1, pushed)
       IN Forced(Rest, AnimatePage(source, source.pages[k], acc))

scrapeAnimateNews(source) == AnimatePages(source, 1, <<>>)

\* the item scrapeBanpresto pushes for an element
BanprestoItem(source, el) ==
  LET rawTitle == IF ~Falsy(el.heading) THEN el.heading ELSE OrEmpty(el.linkText)
      link == makeAbsolute(OrEmpty(el.href), BANPRESTO_BASE)
      Built(title, seriesName) ==
        Item(IdOfLink(link), truncate(title, TITLE_MAX),
             IF ~Falsy(seriesName)
             THEN BANPRESTO_PREFIX \o seriesName \o DASH
                    \o truncate(title, SERIES_TITLE_MAX)
             ELSE BANPRESTO_PREFIX \o truncate(title, SUMMARY_TITLE_MAX),
             link, source.language, FALSE, Absent, Time(Now))
          @@ [image |-> el.img, source |-> source.name]
  IN Forced2(Built, cleanTitle(rawTitle), cleanTitle(OrEmpty(el.series)))

RECURSIVE BanprestoCards(_, _, _, _)
BanprestoCards(source, els, k, acc) ==
  IF k > Len(els) \/ Len(acc) >= BANPRESTO_CAP THEN acc
  ELSE LET it == BanprestoItem(source, els[k])
           title == cleanTitle(IF ~Falsy(els[k].heading) THEN els[k].heading
                               ELSE OrEmpty(els[k].linkText))
           Rest(pushed) == BanprestoCards(source, els, k + 1, pushed)
       IN Forced(Rest,
            IF isValidProduct(title, it.link) /\ it.link # BANPRESTO_BASE
            THEN Append(acc, it) ELSE acc)

\* scrapeBanpresto(source)
RECURSIVE BanprestoPages(_, _, _)
BanprestoPages(source, k, acc) ==
  IF k > Len(source.pages) THEN acc
  ELSE LET page == source.pages[k]
           next == IF page.ok /\ FirstMatching(page) # 0
                   THEN LET Cards(els) == BanprestoCards(source, els, 1, acc)
                        IN Forced(Cards, page.matches[FirstMatching(page)])
                   ELSE acc
           Rest(pushed) == BanprestoPages(source, k + 1, pushed)
       IN Forced(Rest, next)

scrapeBanpresto(source) == BanprestoPages(source, 1, <<>>)

\* 'https://www.goodsmile.info'
GOODSMILE_BASE == <<104, 116, 116, 112, 115, 58, 47, 47, 119, 119, 119, 46, 103, 111, 111, 100, 115, 109, 105, 108, 101, 46, 105, 110, 102, 111>>

\* 'New product from Good Smile Company: '
GOODSMILE_PREFIX == <<78, 101, 119, 32, 112, 114, 111, 100, 117, 99, 116, 32, 102, 114, 111, 109, 32, 71, 111, 111, 100, 32, 83, 109, 105, 108, 101, 32, 67, 111, 109, 112, 97, 110, 121, 58, 32>>

\* the item scrapeGoodSmile pushes for a .hitItem element
GoodSmileItem(source, el) ==
  LET rawTitle == IF ~Falsy(el.heading) THEN el.heading ELSE OrEmpty(el.linkText)
      Built(title, link) ==
        Item(IdOfLink(link), truncate(title, TITLE_MAX),
             GOODSMILE_PREFIX \o truncate(title, SUMMARY_TITLE_MAX),
             link, source.language, FALSE, Absent, parseLooseDate(el.date))
          @@ [image |-> el.img, source |-> source.name]
  IN Forced2(Built, cleanTitle(rawTitle), makeAbsolute(OrEmpty(el.href), GOODSMILE_BASE))

\* $('.hitItem').each: every element, whatever the length of items
RECURSIVE GoodSmileCards(_, _, _, _)
GoodSmileCards(source, els, k, acc) ==
  IF k > Len(els) THEN acc
  ELSE LET it == GoodSmileItem(source, els[k])
           title == cleanTitle(IF ~Falsy(els[k].heading) THEN els[k].heading
                               ELSE OrEmpty(els[k].linkText))
           Rest(pushed) == GoodSmileCards(source, els, k + 1, pushed)
       IN Forced(Rest,
            IF isValidProduct(title, it.link) /\ it.link # GOODSMILE_BASE
            THEN Append(acc, it) ELSE acc)

\* scrapeGoodSmile(source): matches[1] of a page are its .hitItem elements
RECURSIVE GoodSmilePages(_, _, _)
GoodSmilePages(source, k, acc) ==
  IF k > Len(source.pages) THEN acc
  ELSE LET page == source.pages[k]
           Cards(els) == GoodSmileCards(source, els, 1, acc)
           Rest(pushed) == GoodSmilePages(source, k + 1, pushed)
       IN Forced(Rest, IF page.ok THEN Forced(Cards, page.matches[1]) ELSE acc)

scrapeGoodSmile(source) == GoodSmilePages(source, 1, <<>>)

\* 'https://jumpshop-online.com/products/'
JUMPSHOP_PRODUCTS == <<104, 116, 116, 112, 115, 58, 47, 47, 106, 117, 109, 112, 115, 104, 111, 112, 45, 111, 110, 108, 105, 110, 101, 46, 99, 111, 109, 47, 112, 114, 111, 100, 117, 99, 116, 115, 47>>

\* 'Jump Shop: '
JUMPSHOP_PREFIX == <<74, 117, 109, 112, 32, 83, 104, 111, 112, 58, 32>>

\* 'undefined', as a template literal prints a missing handle
UNDEFINED == <<117, 110, 100, 101, 102, 105, 110, 101, 100>>

\* .slice(0, 15) of the sorted products of one URL
JUMPSHOP_SLICE == 15

\* a product of products.json: title, handle, the src of its first image,
\* created_at as a Date reads it (NoDate when missing) and body_html
Product(title, handle, image, created_at, body_html) ==
  Card(title, <<>>, handle, image, created_at, body_html)

\* new Date(product.created_at).toISOString() throws a RangeError on a
\* created_at that no Date parses
ProductThrows(product) == product.date # NoDate /\ ~product.date.valid

\* the item scrapeJumpShop pushes for a product
JumpShopItem(source, product) ==
  LET link == JUMPSHOP_PRODUCTS \o (IF product.href = Absent THEN UNDEFINED ELSE product.href)
      Built(title, body) ==
        Item(IdOfLink(link), truncate(title, TITLE_MAX),
             IF ~Falsy(body) THEN body
             ELSE JUMPSHOP_PREFIX \o truncate(title, SUMMARY_TITLE_MAX),
             link, source.language, FALSE, Absent,
             IF product.date = NoDate THEN Time(Now) ELSE product.date)
          @@ [image |-> product.img, source |-> source.name]
  IN Forced2(Built, cleanTitle(OrEmpty(product.heading)),
             truncate(stripHtml(OrEmpty(product.series)), SUMMARY_MAX))

\* for (const product of sorted): a throw ends the loop, and the catch block
\* of the URL keeps what was pushed
RECURSIVE JumpShopProducts(_, _, _, _)
JumpShopProducts(source, sorted, k, acc) ==
  IF k > Len(sorted) \/ ProductThrows(sorted[k]) THEN acc
  ELSE LET it == JumpShopItem(source, sorted[k])
           Rest(pushed) == JumpShopProducts(source, sorted, k + 1, pushed)
       IN Forced(Rest,
            IF isValidProduct(cleanTitle(OrEmpty(sorted[k].heading)), it.link)
            THEN Append(acc, it) ELSE acc)

\* what products.slice().sort(by created_at, newest first) may leave
SortedProducts(products) ==
  LET keyed == [k \in 1..Len(products) |->
                  [product |-> products[k], publishedAt |-> products[k].date]]
  IN  {[k \in 1..Len(products) |-> sorted[k].product] : sorted \in SortOutcomes(keyed)}

\* the lists scrapeJumpShop(source) may return from page k on: matches[1] of
\* a page are the products of its JSON
RECURSIVE JumpShopPages(_, _, _)
JumpShopPages(source, k, acc) ==
  IF k > Len(source.pages) THEN {acc}
  ELSE LET page == source.pages[k]
           next == IF ~page.ok THEN {acc}
                   ELSE {JumpShopProducts(source, Slice0(sorted, JUMPSHOP_SLICE), 1, acc) :
                           sorted \in SortedProducts(page.matches[1])}
       IN UNION {JumpShopPages(source, k + 1, pushed) : pushed \in next}

scrapeJumpShop(source) == JumpShopPages(source, 1, <<>>)

\* SCRAPER_MAP[source.type] is defined
KnownScraper(type) == type \in {"animate-news", "banpresto", "goodsmile", "jumpshop"}

\* await scraperFn(source), for the scrapers that sort nothing
ScrapedItems(source) ==
  IF source.type = "animate-news" THEN scrapeAnimateNews(source)
  ELSE IF source.type = "goodsmile" THEN scrapeGoodSmile(source)
  ELSE scrapeBanpresto(source)

\* what await scraperFn(source) may return
ScrapedOutcomes(source) ==
  IF source.type = "jumpshop" THEN scrapeJumpShop(source) ELSE {ScrapedItems(source)}


\* most elements matched by a selector, and most anchors, of a freely chosen page
MaxCards == 2
MaxAnchors == 2

\* most sources handed to fetchNewProducts in the runs over whole-source shapes
MaxScrapeSources == 2

\* the texts of the pages: 'New figure', 'Top', 'No', '42',
\* '/news/42', '/article/7', '/about', 'javascript:void(0)'
TxtNewFigure == <<78, 101, 119, 32, 102, 105, 103, 117, 114, 101>>
TxtTop == <<84, 111, 112>>
TxtNo == <<78, 111>>
TxtDigits == <<52, 50>>
HrefNews == <<47, 110, 101, 119, 115, 47, 52, 50>>
HrefArticle == <<47, 97, 114, 116, 105, 99, 108, 101, 47, 55>>
HrefAbout == <<47, 97, 98, 111, 117, 116>>
HrefScript == <<106, 97, 118, 97, 115, 99, 114, 105, 112, 116, 58, 118, 111, 105, 100, 40, 48, 41>>

\* elements of a list page: a product with heading, link, image and date; a
\* navigation entry; a product named only by the text of its link, with a
\* series name; a product whose series text is long
PageCards ==
  {Card(TxtNewFigure, <<>>, HrefNews, ImgFeed, Time(3), <<>>),
   Card(<<>>, TxtTop, HrefAbout, Absent, NoDate, <<>>),
   Card(<<>>, <<32>> \o TxtNewFigure \o <<10, 9>>, HrefArticle, Absent, Unparseable, TxtTop),
   Card(TxtNewFigure, <<>>, HrefNews, ImgFeed, NoDate, Repeat(97, LongLen))}

\* anchors of a page: an article link around an image only; one with image
\* and text; one with text too short for a title; a link elsewhere; a
\* script link; an article link of the other kind, its text a number
PageAnchors ==
  {Anchor(HrefNews, <<>>, ImgFeed),
   Anchor(HrefNews, TxtNewFigure, ImgFeed),
   Anchor(HrefNews, TxtNo, ImgFeed),
   Anchor(HrefAbout, TxtNewFigure, Absent),
   Anchor(HrefArticle, TxtDigits, Absent),
   Anchor(HrefArticle, TxtNewFigure, Absent)}

\* the elements each selector of a list of n finds, when only the selector
\* at sel finds any
OnlySelector(n, sel, cards) == [m \in 1..n |-> IF m = sel THEN cards ELSE <<>>]

\* freely chosen pages: the fetch fails; one selector (the first, a middle
\* one, the last) matches; none matches and the page has anchors
FreePages ==
  {Page(FALSE, OnlySelector(ANIMATE_SELECTORS, 0, <<>>), <<>>)}
    \cup {Page(TRUE, OnlySelector(ANIMATE_SELECTORS, sel, cards),
               <<Anchor(HrefArticle, TxtNewFigure, Absent)>>) :
            sel \in {1, 5, ANIMATE_SELECTORS},
            cards \in ListsUpTo(PageCards, MaxCards) \ {<<>>}}
    \cup {Page(TRUE, OnlySelector(ANIMATE_SELECTORS, 0, <<>>), as) :
            as \in ListsUpTo(PageAnchors, MaxAnchors)}

\* pages on which two selectors of the list match, each its own elements (a
\* product, or a navigation entry that fails validation, for the earlier
\* selector; another product for the later one), and that have an article
\* anchor as well
CascadePages ==
  {Page(TRUE,
        [m \in 1..ANIMATE_SELECTORS |->
           IF m = early THEN first ELSE IF m = late THEN second ELSE <<>>],
        <<Anchor(HrefArticle, TxtNewFigure, Absent)>>) :
     early \in {1, 5}, late \in {6, ANIMATE_SELECTORS},
     first \in {<<Card(TxtNewFigure, <<>>, HrefNews, ImgFeed, Time(3), <<>>)>>,
                <<Card(<<>>, TxtTop, HrefAbout, Absent, NoDate, <<>>)>>},
     second \in {<<Card(TxtNewFigure, <<>>, HrefAbout, Absent, NoDate, <<>>)>>}}

\* whole-source shapes: a type without scraper; a source whose urls are
\* missing; sources of one and of two pages
ListPage == Page(TRUE, OnlySelector(ANIMATE_SELECTORS, 2,
                   <<Card(TxtNewFigure, <<>>, HrefNews, ImgFeed, Time(3), <<>>),
                     Card(<<>>, TxtNewFigure, HrefArticle, Absent, NoDate, TxtTop)>>), <<>>)
FallbackPage == Page(TRUE, OnlySelector(ANIMATE_SELECTORS, 0, <<>>),
                     <<Anchor(HrefArticle, TxtNewFigure, ImgFeed)>>)
FailedPage == Page(FALSE, OnlySelector(ANIMATE_SELECTORS, 0, <<>>), <<>>)

ScrapeShapes ==
  {ScrapeSource(<<>>, "kotobukiya-old", "ja", TRUE, <<ListPage>>),
   ScrapeSource(<<>>, "animate-news", "ja", FALSE, <<>>),
   ScrapeSource(<<>>, "animate-news", "ja", TRUE, <<FailedPage>>),
   ScrapeSource(<<>>, "animate-news", "ja", TRUE, <<FallbackPage, ListPage>>),
   ScrapeSource(<<>>, "banpresto", "en", TRUE, <<ListPage>>),
   ScrapeSource(<<>>, "banpresto", "ja", TRUE, <<FailedPage, ListPage>>)}

\* raw titles: a number between blanks, a number, a navigation word between
\* blanks and in capitals, a word too short, a product name
RawTitles ==
  {<<32>> \o TxtDigits \o <<55, 32>>, TxtDigits \o <<55>>, <<32>> \o TxtTop \o <<32>>,
   <<84, 79, 80>>, TxtNo, TxtNewFigure}

\* hrefs: a page, a script link, '#', a page with an empty fragment
RawHrefs == {HrefNews, HrefScript, <<35>>, HrefNews \o <<35>>}

\* sources of one page with one element, of every raw title and href
TitleSources ==
  {ScrapeSource(<<>>, type, "ja", TRUE,
                <<Page(TRUE, OnlySelector(ANIMATE_SELECTORS, 1,
                                          <<Card(title, <<>>, href, Absent, NoDate, <<>>)>>),
                       <<>>)>>) :
     type \in {"animate-news", "banpresto", "goodsmile", "jumpshop"},
     title \in RawTitles, href \in RawHrefs}

\* elements beyond the cap on the pages that hold many
CapExtra == 1

\* n elements that each make a valid item
ManyCards(n) ==
  [k \in 1..n |-> Card(TxtNewFigure, <<>>, HrefNews, ImgFeed, Time(3), <<>>)]

\* sources whose pages hold as many elements as the cap of their adapter, or
\* more: one page of an Animate-news, a Banpresto and a Good Smile source;
\* one and two pages of a Jump Shop source; and a Jump Shop page with a
\* product whose created_at is missing and one whose created_at does not parse
FullSources ==
  {ScrapeSource(<<>>, "animate-news", "ja", TRUE,
                <<Page(TRUE, OnlySelector(ANIMATE_SELECTORS, 1, ManyCards(ANIMATE_CAP + n)), <<>>)>>) :
     n \in 0..CapExtra}
    \cup {ScrapeSource(<<>>, "banpresto", "ja", TRUE,
                <<Page(TRUE, OnlySelector(BANPRESTO_SELECTORS, 1, ManyCards(BANPRESTO_CAP + n)), <<>>)>>) :
             n \in 0..CapExtra}
    \cup {ScrapeSource(<<>>, "goodsmile", "ja", TRUE,
                <<Page(TRUE, <<ManyCards(BANPRESTO_CAP + n)>>, <<>>)>>) : n \in 0..CapExtra}
    \cup {ScrapeSource(<<>>, "jumpshop", "ja", TRUE,
                [k \in 1..pages |-> Page(TRUE, <<ManyCards(JUMPSHOP_SLICE + n)>>, <<>>)]) :
             n \in 0..CapExtra, pages \in 1..2}
    \cup {ScrapeSource(<<>>, "jumpshop", "ja", TRUE,
                <<Page(TRUE, <<<<Product(TxtNewFigure, HrefNews, ImgFeed, d, <<>>),
                                 Product(TxtNewFigure, Absent, Absent, Time(1), TxtTop)>>>>, <<>>)>>) :
             d \in {NoDate, Unparseable, Time(3)}}
    \cup {ScrapeSource(<<>>, "goodsmile", "ja", TRUE, <<FailedPage, ListPage>>)}

ScrapeRuns ==
  ListsUpTo(ScrapeShapes, MaxScrapeSources)
    \cup {<<source>> : source \in FullSources \cup TitleSources}
    \cup {<<ScrapeSource(<<>>, type, "ja", TRUE, <<page>>)>> :
            type \in {"animate-news", "banpresto"}, page \in FreePages \cup CascadePages}

InitScrape ==
  /\ StagesIdle
  /\ origin = <<>>
  /\ pc = "scrape_loop"
  /\ events = <<>>
  /\ rvariant = "none"
  /\ mvariant = "none"
  /\ emitted = <<>>
  /\ \E list \in ScrapeRuns : sources = Named(list)
  /\ src = 1
  /\ allItems = <<>>
  /\ cur = <<>>
  /\ fillAt = 0
  /\ fetched = 0
  /\ call = <<>>
  /\ ret = <<>>
  /\ rssItems = <<>>
  /\ productItems = <<>>

\* for each item a scraper returned, the source and the rank of the item
ScrapeOrigin(s, list) == [k \in 1..Len(list) |-> <<s, k>>]

\* if (!scraperFn) { console.warn(...); continue; }
ScrapeUnknown ==
  /\ pc = "scrape_loop" /\ src <= Len(sources)
  /\ ~KnownScraper(sources[src].type)
  /\ events' = Append(events, [k |-> "warn", src |-> src])
  /\ src' = src + 1
  /\ UNCHANGED stageVars
  /\ UNCHANGED mainVars
  /\ UNCHANGED <<pc, origin, rvariant, mvariant, emitted, sources, allItems, cur, fillAt, fetched, call, ret>>

\* a faulty variant without any catch block: the error of the scraper ends
\* the run; the completion of the pipeline is tested against it
ScrapeCrashUncaught ==
  /\ pc = "scrape_loop" /\ src <= Len(sources)
  /\ KnownScraper(sources[src].type)
  /\ ~sources[src].ok
  /\ pc' = "raised"
  /\ UNCHANGED stageVars
  /\ UNCHANGED mainVars
  /\ UNCHANGED <<origin, rvariant, mvariant, emitted, sources, src, allItems, events, cur, fillAt,
                 fetched, call, ret>>

\* the scraper throws: the catch block logs and the loop goes on
ScrapeCrash ==
  /\ pc = "scrape_loop" /\ src <= Len(sources)
  /\ KnownScraper(sources[src].type)
  /\ ~sources[src].ok
  /\ events' = Append(events, [k |-> "error", src |-> src])
  /\ src' = src + 1
  /\ UNCHANGED stageVars
  /\ UNCHANGED mainVars
  /\ UNCHANGED <<pc, origin, rvariant, mvariant, emitted, sources, allItems, cur, fillAt, fetched, call, ret>>

\* const items = await scraperFn(source); allItems.push(...items)
ScrapePush ==
  /\ pc = "scrape_loop" /\ src <= Len(sources)
  /\ KnownScraper(sources[src].type)
  /\ sources[src].ok
  /\ \E list \in ScrapedOutcomes(sources[src]) :
       /\ allItems' = allItems \o list
       /\ origin' = origin \o ScrapeOrigin(src, list)
  /\ src' = src + 1
  /\ UNCHANGED stageVars
  /\ UNCHANGED mainVars
  /\ UNCHANGED <<pc, rvariant, mvariant, emitted, sources, events, cur, fillAt, fetched, call, ret>>

\* return allItems
ScrapeReturn ==
  /\ pc = "scrape_loop" /\ src > Len(sources)
  /\ pc' = "scrape_returned"
  /\ UNCHANGED stageVars
  /\ UNCHANGED mainVars
  /\ UNCHANGED <<origin, rvariant, mvariant, emitted, sources, src, allItems, events, cur, fillAt,
                 fetched, call, ret>>

NextScrape == ScrapeUnknown \/ ScrapeCrash \/ ScrapePush \/ ScrapeReturn

SpecScrape == InitScrape /\ [][NextScrape]_vars

-----------------------------------------------------------------------------
(* Claims on the HTML-scrape adapters *)

\* the anchors of the page whose absolutized href is link
AnchorsTo(page, link) ==
  {k \in 1..Len(page.anchors) :
     makeAbsolute(page.anchors[k].href, ANIMATE_BASE) = link}

\* C18: when the one page of an Animate-news source matches no selector of
\* the primary list and has an anchor with /news/ in its href and an <img>
\* child, the adapter emits exactly one item for that anchor, its link the
\* absolutized href (one item per such anchor when several share the href).
C18_FallbackEmitsAnchor ==
  pc = "scrape_returned" =>
    \A s \in 1..Len(sources) :
      (sources[s].type = "animate-news" /\ sources[s].ok /\ Len(sources[s].pages) = 1) =>
        LET page == sources[s].pages[1] IN
        (page.ok /\ FirstMatching(page) = 0) =>
          \A k \in 1..Len(page.anchors) :
            LET a == page.anchors[k]
                link == makeAbsolute(a.href, ANIMATE_BASE)
            IN (Includes(a.href, NEWS_PATH) /\ ~Falsy(a.img)) =>
                 Cardinality({j \in 1..Len(Emitted(s)) : Emitted(s)[j].link = link})
                   = Cardinality({m \in AnchorsTo(page, link) :
                                    ~Falsy(page.anchors[m].img)})


-----------------------------------------------------------------------------
(* JSON-API adapters: the fetch-products.js of the WordPress / event APIs *)

\* the month names of toLocaleDateString('en-US', { month: 'short' })
MONTH_SHORT ==
  <<<<74, 97, 110>>,
    <<70, 101, 98>>,
    <<77, 97, 114>>,
    <<65, 112, 114>>,
    <<77, 97, 121>>,
    <<74, 117, 110>>,
    <<74, 117, 108>>,
    <<65, 117, 103>>,
    <<83, 101, 112>>,
    <<79, 99, 116>>,
    <<78, 111, 118>>,
    <<68, 101, 99>>>>

\* the entities decodeEntities replaces, in the order of the code, each with
\* the code unit it becomes
ENTITIES ==
  <<[pat |-> <<38, 35, 56, 50, 49, 49, 59>>, rep |-> <<8211>>],
    [pat |-> <<38, 35, 56, 50, 49, 50, 59>>, rep |-> <<8212>>],
    [pat |-> <<38, 35, 56, 50, 49, 55, 59>>, rep |-> <<8217>>],
    [pat |-> <<38, 35, 56, 50, 50, 48, 59>>, rep |-> <<8220>>],
    [pat |-> <<38, 35, 56, 50, 50, 49, 59>>, rep |-> <<8221>>],
    [pat |-> <<38, 35, 48, 51, 56, 59>>, rep |-> <<38>>],
    [pat |-> <<38, 97, 109, 112, 59>>, rep |-> <<38>>],
    [pat |-> <<38, 108, 116, 59>>, rep |-> <<60>>],
    [pat |-> <<38, 103, 116, 59>>, rep |-> <<62>>],
    [pat |-> <<38, 113, 117, 111, 116, 59>>, rep |-> <<34>>],
    [pat |-> <<38, 35, 48, 51, 57, 59>>, rep |-> <<39>>]>>

\* ['ver3-1.jpg', 'ver3-1.png', 'banner', 'logo']
BANNER_PATTERNS ==
  {<<118, 101, 114, 51, 45, 49, 46, 106, 112, 103>>,
   <<118, 101, 114, 51, 45, 49, 46, 112, 110, 103>>,
   <<98, 97, 110, 110, 101, 114>>,
   <<108, 111, 103, 111>>}

\* 'https://animatecafe.jp/events/'
CAFE_EVENTS_URL == <<104, 116, 116, 112, 115, 58, 47, 47, 97, 110, 105, 109, 97, 116, 101, 99, 97, 102, 101, 46, 106, 112, 47, 101, 118, 101, 110, 116, 115, 47>>

\* ' | '
BAR == <<32, 124, 32>>

\* ' \u2013 '
EN_DASH == <<32, 8211, 32>>

\* the cut of the description in a summary that starts with the period
DESCRIPTION_SLICE == 150

\* an upstream date text that a Date parses, with the month and the day that
\* toLocaleDateString shows of it
EventDate(month, day) ==
  [valid |-> TRUE, t |-> (month * 31) + day, month |-> month, day |-> day]

\* a date field that is missing, or whose text no Date parses
NoEventDate == [valid |-> FALSE, t |-> 0 - 1, month |-> 0, day |-> 0]
BadEventDate == [valid |-> FALSE, t |-> 0, month |-> 0, day |-> 0]

\* Number.prototype.toString of a day of the month
Decimal(n) == IF n < 10 THEN <<48 + n>> ELSE <<48 + (n \div 10), 48 + (n % 10)>>

\* d.toLocaleDateString('en-US', { month: 'short', day: 'numeric' })
ShortDate(d) == MONTH_SHORT[d.month] \o <<32>> \o Decimal(d.day)

\* formatEventPeriod(start, end)
formatEventPeriod(start, end) ==
  IF start = NoEventDate \/ ~start.valid THEN <<>>
  ELSE IF end # NoEventDate /\ end.valid
       THEN ShortDate(start) \o EN_DASH \o ShortDate(end)
       ELSE ShortDate(start)

\* the value of publishedAt as the Finalizer's Date reads the text passed on
AsTime(d) == IF d.valid THEN Time(d.t) ELSE Unparseable

\* the first of the given date fields that is present, else the time of the run
RECURSIVE FirstDate(_)
FirstDate(ds) ==
  IF ds = <<>> THEN Time(Now)
  ELSE IF Head(ds) # NoEventDate THEN AsTime(Head(ds)) ELSE FirstDate(Tail(ds))

\* decodeEntities(str)
RECURSIVE DecodeFrom(_, _)
DecodeFrom(s, n) ==
  IF n > Len(ENTITIES) THEN s
  ELSE DecodeFrom(ReplaceAll(s, ENTITIES[n].pat, ENTITIES[n].rep), n + 1)

decodeEntities(str) == IF Falsy(str) THEN <<>> ELSE RemoveTags(DecodeFrom(str, 1))

\* isBannerImage(url)
isBannerImage(url) ==
  IF Falsy(url) THEN FALSE
  ELSE \E pattern \in BANNER_PATTERNS : Includes(ToLowerCase(url), pattern)

\* a post or event of a WordPress REST answer: title is title.rendered,
\* text is excerpt.rendered || content.rendered, image the source_url of the
\* featured media, medium the source_url of its medium size, inContent what
\* extractImageFromHtml gives for content.rendered, date / modified /
\* start / end the date fields the adapters read
Post(title, link, text, image, date, modified, start, end) ==
  [title |-> title, link |-> link, text |-> text, image |-> image,
   medium |-> Absent, inContent |-> Absent,
   date |-> date, modified |-> modified, start |-> start, end |-> end]

\* the post with the other places an image is looked for in
WithCandidates(post, medium, inContent) ==
  [post EXCEPT !.medium = medium, !.inContent = inContent]

\* featuredMedia?.source_url || ...sizes?.medium?.source_url
\*   || extractImageFromHtml(content?.rendered) || null
DetectedImage(post) ==
  LET found == SelectSeq(<<post.image, post.medium, post.inContent>>,
                         LAMBDA u : ~Falsy(u))
  IN IF found = <<>> THEN Absent ELSE Head(found)

\* an event of the Animate Cafe answer; status "" stands for a missing status
CafeEvent(status, name, slug, image, startsAt, endsAt, displayAt, description) ==
  [status |-> status, name |-> name, slug |-> slug, image |-> image,
   startsAt |-> startsAt, endsAt |-> endsAt, displayAt |-> displayAt,
   description |-> description]

\* one page of the collabo-cafe API: ok is FALSE when axios.get rejects
ApiPage(ok, records) == [ok |-> ok, records |-> records]

\* an API source of the configuration with what its URL answers: entries is
\* res.data of the one request of fetchAnimateWP / fetchAnimateCafe (ok FALSE
\* when it rejects), pages the answers to the requests of fetchCollaboCafe
ApiSource(name, type, language, ok, entries, pages) ==
  [name |-> name, type |-> type, language |-> language, filterTags |-> NoTags,
   ok |-> ok, entries |-> entries, pages |-> pages]

\* if (image && isBannerImage(image)) image = null
WithoutBanner(image) == IF ~Falsy(image) /\ isBannerImage(image) THEN Absent ELSE image

\* the item fetchCollaboCafe pushes for an event
CollaboItem(source, event) ==
  LET title == decodeEntities(OrEmpty(event.title))
      link == OrEmpty(event.link)
      Built(summary, period) ==
        Item(IdOfLink(link), title,
             IF ~Falsy(period) THEN period \o BAR \o summary ELSE summary,
             link, source.language, FALSE, Absent,
             FirstDate(<<event.modified, event.start>>))
          @@ [image |-> WithoutBanner(DetectedImage(event)), source |-> source.name]
  IN Forced2(Built, truncate(stripHtml(OrEmpty(event.text)), SUMMARY_MAX),
             formatEventPeriod(event.start, event.end))

\* fetchCollaboCafe(source): the pages in order, a failed page skipped
RECURSIVE CollaboPages(_, _, _)
CollaboPages(source, k, acc) ==
  IF k > Len(source.pages) THEN acc
  ELSE LET page == source.pages[k]
           got == IF page.ok
                  THEN [n \in 1..Len(page.records) |-> CollaboItem(source, page.records[n])]
                  ELSE <<>>
           Rest(pushed) == CollaboPages(source, k + 1, pushed)
       IN Forced(Rest, acc \o got)

fetchCollaboCafe(source) == CollaboPages(source, 1, <<>>)

\* the item fetchAnimateWP pushes for a post
AnimateWPItem(source, post) ==
  LET link == OrEmpty(post.link)
  IN Item(IdOfLink(link), decodeEntities(OrEmpty(post.title)),
          truncate(stripHtml(OrEmpty(post.text)), SUMMARY_MAX),
          link, source.language, FALSE, Absent,
          FirstDate(<<post.date, post.modified>>))
       @@ [image |-> WithoutBanner(DetectedImage(post)), source |-> source.name]

\* fetchAnimateWP(source)
fetchAnimateWP(source) ==
  IF ~source.ok THEN <<>>
  ELSE [n \in 1..Len(source.entries) |-> AnimateWPItem(source, source.entries[n])]

\* if (event.status && event.status !== 'PUBLISHED') continue
CafeSkips(event) == event.status # "" /\ event.status # "PUBLISHED"

\* the item fetchAnimateCafe pushes for an event
CafeItem(source, event) ==
  LET title == OrEmpty(event.name)
      slug == OrEmpty(event.slug)
      link == IF ~Falsy(slug) THEN CAFE_EVENTS_URL \o slug ELSE <<>>
      Built(period, descText) ==
        Item(IdOfLink(link), title,
             IF ~Falsy(period)
             THEN period \o BAR \o Slice0(descText, DESCRIPTION_SLICE)
             ELSE truncate(descText, SUMMARY_MAX),
             link, source.language, FALSE, Absent,
             FirstDate(<<event.startsAt, event.displayAt>>))
          @@ [image |-> event.image, source |-> source.name]
  IN Forced2(Built, formatEventPeriod(event.startsAt, event.endsAt),
             stripHtml(OrEmpty(event.description)))

\* the positions in the answer of the events fetchAnimateCafe pushes an item for
CafeKept(source) ==
  IF ~source.ok THEN <<>>
  ELSE SelectSeq(Positions(source.entries),
                 LAMBDA k : /\ ~CafeSkips(source.entries[k])
                            /\ ~Falsy(OrEmpty(source.entries[k].name))
                            /\ ~Falsy(IF ~Falsy(OrEmpty(source.entries[k].slug))
                                      THEN CAFE_EVENTS_URL \o OrEmpty(source.entries[k].slug)
                                      ELSE <<>>))

\* fetchAnimateCafe(source)
fetchAnimateCafe(source) ==
  [n \in 1..Len(CafeKept(source)) |-> CafeItem(source, source.entries[CafeKept(source)[n]])]

\* the switch of fetchNewProducts
KnownApi(type) == type \in {"collabo-cafe", "animate-wp", "animate-cafe"}

ApiItems(source) ==
  IF source.type = "collabo-cafe" THEN fetchCollaboCafe(source)
  ELSE IF source.type = "animate-wp" THEN fetchAnimateWP(source)
  ELSE fetchAnimateCafe(source)

\* for each item of an API source, the source and the record it was made
\* from (for fetchCollaboCafe: its rank over all pages)
ApiOrigin(s, source) ==
  IF source.type = "animate-cafe"
  THEN [n \in 1..Len(CafeKept(source)) |-> <<s, CafeKept(source)[n]>>]
  ELSE [n \in 1..Len(ApiItems(source)) |-> <<s, n>>]


-----------------------------------------------------------------------------
(* Specification of the JSON-API dispatcher *)

MaxEvents == 2
MaxApiPages == 2
MaxApiSources == 2

TxtEvent == <<69, 118>>
TxtEntityTitle == <<60, 98, 62, 65, 38, 97, 109, 112, 59, 66, 60, 47, 98, 62>>
TxtSlug == <<115, 49>>
TxtLink == <<47, 112, 47, 49>>
ImgBanner == <<47, 105, 109, 103, 47, 66, 97, 110, 110, 101, 114, 45, 49, 46, 112, 110, 103>>
ImgPhoto == <<47, 105, 109, 103, 47, 97, 46, 112, 110, 103>>
Mar5 == EventDate(3, 5)
Apr12 == EventDate(4, 12)

\* the events an Animate Cafe answer is made of
CafeEvents ==
  {CafeEvent(status, name, slug, Absent, Mar5, NoEventDate, NoEventDate, TxtEntityTitle) :
     status \in {"PUBLISHED", "DRAFT", ""}, name \in {TxtEvent, Absent},
     slug \in {TxtSlug, Absent}}

\* events with a long description, with and without a start date
LongCafeEvents ==
  {CafeEvent("PUBLISHED", TxtEvent, TxtSlug, ImgPhoto, startsAt, Apr12, Mar5,
             Repeat(97, LongLen)) : startsAt \in {Mar5, NoEventDate}}

\* the events a collabo-cafe page is made of
CollaboEvents ==
  {Post(TxtEntityTitle, TxtLink, TxtEntityTitle, image, NoEventDate, NoEventDate, Mar5, end) :
     image \in {Absent, ImgBanner, ImgPhoto}, end \in {NoEventDate, BadEventDate}}

\* events with a long excerpt, with and without a start date
LongCollaboEvents ==
  {Post(TxtEvent, TxtLink, Repeat(97, LongLen), ImgPhoto, NoEventDate, Apr12,
        start, Apr12) : start \in {NoEventDate, Mar5}}

\* the posts an Animate WordPress answer is made of
WPPosts ==
  {Post(title, TxtLink, TxtEntityTitle, image, date, NoEventDate, NoEventDate, NoEventDate) :
     title \in {TxtEntityTitle, Absent}, image \in {ImgBanner, ImgPhoto},
     date \in {NoEventDate, Mar5}}

LongWPPost ==
  Post(TxtEvent, TxtLink, Repeat(97, LongLen), Absent, Mar5, Apr12, NoEventDate, NoEventDate)

\* '/img/site-LOGO.jpg'
ImgLogo == <<47, 105, 109, 103, 47, 115, 105, 116, 101, 45, 76, 79, 71, 79, 46, 106, 112, 103>>

\* posts with an image in several of the places it is looked for in
CandidatePosts ==
  {WithCandidates(Post(TxtEvent, TxtLink, TxtEvent, featured, Mar5, NoEventDate, Mar5,
                       NoEventDate), medium, inContent) :
     featured \in {Absent, ImgBanner}, medium \in {Absent, ImgPhoto, ImgLogo},
     inContent \in {Absent, ImgPhoto}}

\* published Animate Cafe events with an image
ImageCafeEvents ==
  {CafeEvent("PUBLISHED", TxtEvent, TxtSlug, image, Mar5, NoEventDate, NoEventDate, TxtEvent) :
     image \in {ImgBanner, ImgLogo, ImgPhoto}}

CollaboPageShapes ==
  {ApiPage(FALSE, <<>>)} \cup {ApiPage(TRUE, <<e>>) : e \in CollaboEvents}

\* configurations of one source with every answer of its API
ApiSingles ==
  {<<ApiSource(<<>>, "animate-cafe", "ja", TRUE, list, <<>>)>> :
     list \in ListsUpTo(CafeEvents, MaxEvents)
                \cup {<<e>> : e \in LongCafeEvents \cup ImageCafeEvents}}
    \cup {<<ApiSource(<<>>, "collabo-cafe", "ja", TRUE, <<>>, pages)>> :
            pages \in ListsUpTo(CollaboPageShapes, MaxApiPages)
                        \cup {<<ApiPage(TRUE, <<e>>)>> :
                                 e \in LongCollaboEvents \cup CandidatePosts}}
    \cup {<<ApiSource(<<>>, "animate-wp", "en", TRUE, list, <<>>)>> :
            list \in ListsUpTo(WPPosts, MaxEvents) \cup {<<LongWPPost>>}
                       \cup {<<e>> : e \in CandidatePosts}}

\* sources the longer configurations are made of
ApiShapes ==
  {ApiSource(<<>>, "good-smile", "ja", TRUE, <<>>, <<>>),
   ApiSource(<<>>, "animate-cafe", "ja", FALSE, <<>>, <<>>),
   ApiSource(<<>>, "animate-wp", "ja", FALSE, <<>>, <<>>),
   ApiSource(<<>>, "animate-cafe", "ja", TRUE,
             <<CafeEvent("DRAFT", TxtEvent, TxtSlug, Absent, Mar5, Apr12, Mar5, TxtEvent),
               CafeEvent("PUBLISHED", TxtEvent, TxtSlug, Absent, Mar5, Apr12, Mar5, TxtEvent)>>,
             <<>>),
   ApiSource(<<>>, "collabo-cafe", "ja", TRUE, <<>>,
             <<ApiPage(TRUE, <<Post(TxtEvent, TxtLink, TxtEvent, ImgPhoto, NoEventDate,
                                    Apr12, Mar5, Apr12)>>)>>)}

ApiRuns == ApiSingles \cup ListsUpTo(ApiShapes, MaxApiSources)

InitApi ==
  /\ StagesIdle
  /\ origin = <<>>
  /\ pc = "api_loop"
  /\ events = <<>>
  /\ rvariant = "none"
  /\ mvariant = "none"
  /\ emitted = <<>>
  /\ \E list \in ApiRuns : sources = Named(list)
  /\ src = 1
  /\ allItems = <<>>
  /\ cur = <<>>
  /\ fillAt = 0
  /\ fetched = 0
  /\ call = <<>>
  /\ ret = <<>>
  /\ rssItems = <<>>
  /\ productItems = <<>>

\* default: console.warn(...); items = []
ApiUnknown ==
  /\ pc = "api_loop" /\ src <= Len(sources)
  /\ ~KnownApi(sources[src].type)
  /\ events' = Append(events, [k |-> "warn", src |-> src])
  /\ src' = src + 1
  /\ UNCHANGED stageVars
  /\ UNCHANGED mainVars
  /\ UNCHANGED <<pc, origin, rvariant, mvariant, emitted, sources, allItems, cur, fillAt, fetched, call, ret>>

\* items = await fetch...(source); allItems.push(...items)
ApiPush ==
  /\ pc = "api_loop" /\ src <= Len(sources)
  /\ KnownApi(sources[src].type)
  /\ allItems' = allItems \o ApiItems(sources[src])
  /\ origin' = origin \o ApiOrigin(src, sources[src])
  /\ src' = src + 1
  /\ UNCHANGED stageVars
  /\ UNCHANGED mainVars
  /\ UNCHANGED <<pc, rvariant, mvariant, emitted, sources, events, cur, fillAt, fetched, call, ret>>

\* return allItems
ApiReturn ==
  /\ pc = "api_loop" /\ src > Len(sources)
  /\ pc' = "api_returned"
  /\ UNCHANGED stageVars
  /\ UNCHANGED mainVars
  /\ UNCHANGED <<origin, rvariant, mvariant, emitted, sources, src, allItems, events, cur, fillAt,
                 fetched, call, ret>>

NextApi == ApiUnknown \/ ApiPush \/ ApiReturn

SpecApi == InitApi /\ [][NextApi]_vars

-----------------------------------------------------------------------------
(* Claims on the JSON-API adapters *)

\* C11: every item an adapter emits has a summary of at most 200 characters
C11_SummaryWithin200 ==
  \A j \in 1..Len(allItems) : Len(allItems[j].summary) <= SUMMARY_MAX

\* C17: the Animate Cafe adapter emits exactly the events whose status is
\* PUBLISHED: every item comes from such an event, and every other event
\* yields no item
C17_OnlyPublishedEmitted ==
  \A j \in 1..Len(allItems) :
    sources[origin[j][1]].type = "animate-cafe"
      => sources[origin[j][1]].entries[origin[j][2]].status = "PUBLISHED"


-----------------------------------------------------------------------------
(* The pipeline: main of fetch-news.js *)

\* most sources of the configuration in the runs of the pipeline
MaxMainSources == 2

\* the installed versions of fetch-rss.js, filter.js and translate.js, and
\* whether DEEPL_API_KEY is set: the files of src/scripts, and the older
\* files with and without the key
Builds ==
  {<<"og", "plain", "google", FALSE>>,
   <<"tags", "chain", "deepl", TRUE>>,
   <<"tags", "chain", "deepl", FALSE>>}

\* RSS_SOURCES: a URL that fails; an English feed of two entries, the first
\* without image; a Japanese feed of one entry; a feed with an entry whose
\* date does not parse
MainFeedShapes ==
  {FeedSource(<<>>, "ja", NoTags, FALSE, <<>>),
   FeedSource(<<>>, "en", NoTags, TRUE, <<GoodEntryB, GoodEntryA>>),
   FeedSource(<<>>, "ja", NoTags, TRUE, <<GoodEntryB>>),
   FeedSource(<<>>, "en", NoTags, TRUE, <<GoodEntryA, BadDateEntry>>)}

\* SCRAPE_SOURCES: a type without scraper; a scraper that throws; a store
\* whose first page has only article links; a store whose first page fails
MainScrapeShapes ==
  {ScrapeSource(<<>>, "kotobukiya-old", "ja", TRUE, <<ListPage>>),
   ScrapeSource(<<>>, "animate-news", "ja", FALSE, <<>>),
   ScrapeSource(<<>>, "animate-news", "en", TRUE, <<FallbackPage, ListPage>>),
   ScrapeSource(<<>>, "banpresto", "en", TRUE, <<FailedPage, ListPage>>)}

\* a feed with more image-less entries than the backfill fetches pages for,
\* after an entry without link
LongFeed ==
  FeedSource(<<>>, "en", NoTags, TRUE,
             <<[NeedyEntry EXCEPT !.link = <<>>]>>
               \o [k \in 1..(OG_IMAGE_FETCH_LIMIT + 1) |-> NeedyEntry])

\* the configurations: RSS_SOURCES followed by SCRAPE_SOURCES
MainRuns ==
  {list \in ListsUpTo(MainFeedShapes \cup MainScrapeShapes, MaxMainSources) :
     \A a, b \in 1..Len(list) : a < b /\ list[b].type = "rss" => list[a].type = "rss"}
    \cup {<<LongFeed>>}

InitMain ==
  /\ pc = "rss_loop"
  /\ \E build \in Builds :
       /\ rvariant = build[1]
       /\ fvariant = build[2]
       /\ tvariant = build[3]
       /\ apiKey = build[4]
  /\ \E list \in MainRuns : sources = Named(list)
  /\ mvariant = "none"
  /\ emitted = <<>>
  /\ src = 1
  /\ allItems = <<>>
  /\ rssItems = <<>>
  /\ productItems = <<>>
  /\ cur = <<>>
  /\ fillAt = 0
  /\ fetched = 0
  /\ call = <<>>
  /\ ret = <<>>
  /\ items = <<>>
  /\ out = <<>>
  /\ out2 = <<>>
  /\ i = 0
  /\ results = <<>>
  /\ origin = <<>>
  /\ pending = Absent
  /\ events = <<>>
  /\ outcome = <<>>

\* rssItems = await fetchRSSFeeds(RSS_SOURCES);
\* fetchNewProducts(SCRAPE_SOURCES) starts with its own empty allItems
MainScrape ==
  /\ pc = "rss_returned"
  /\ rssItems' = allItems
  /\ allItems' = <<>>
  /\ pc' = "scrape_loop"
  /\ UNCHANGED stageVars
  /\ UNCHANGED <<origin, rvariant, mvariant, emitted, sources, src, events, cur, fillAt, fetched,
                 call, ret, productItems>>

\* a faulty variant of the combination that puts the store items first; the
\* order of the aggregate is tested against it
MainCombineProductsFirst ==
  /\ pc = "scrape_returned"
  /\ productItems' = allItems
  /\ items' = allItems \o rssItems
  /\ pc' = "filter"
  /\ UNCHANGED <<fvariant, tvariant, apiKey, out, out2, i, results, pending, outcome>>
  /\ UNCHANGED <<origin, rvariant, mvariant, emitted, sources, src, allItems, events, cur, fillAt,
                 fetched, call, ret, rssItems>>

\* productItems = await fetchNewProducts(SCRAPE_SOURCES);
\* let allItems = [...rssItems, ...productItems]
MainCombine ==
  /\ pc = "scrape_returned"
  /\ productItems' = allItems
  /\ items' = rssItems \o allItems
  /\ pc' = "filter"
  /\ UNCHANGED <<fvariant, tvariant, apiKey, out, out2, i, results, pending, outcome>>
  /\ UNCHANGED <<origin, rvariant, mvariant, emitted, sources, src, allItems, events, cur, fillAt,
                 fetched, call, ret, rssItems>>

\* allItems = await translateTexts(allItems): the translator is entered with
\* the filter's list
MainTranslate ==
  /\ pc = "filtered"
  /\ items' = out
  /\ out' = <<>>
  /\ origin' = <<>>
  /\ outcome' = [k \in 1..Len(out) |-> <<>>]
  /\ pc' = "t_start"
  /\ UNCHANGED adapterVars
  /\ UNCHANGED <<fvariant, tvariant, apiKey, out2, i, results, pending, events>>

\* allItems = deduplicateById(allItems) is entered with the translator's list
MainFinalize ==
  /\ pc = "translated"
  /\ items' = out
  /\ pc' = "f_dedup"
  /\ UNCHANGED adapterVars
  /\ UNCHANGED <<fvariant, tvariant, apiKey, out, out2, i, results, origin,
                 pending, events, outcome>>

NextMain ==
  \/ RssFail \/ RssPush \/ RssFill
  \/ FillHasImage \/ FillNoLink \/ FillFetch \/ FillBreak \/ FillReturn
  \/ RssReturn
  \/ MainScrape
  \/ ScrapeUnknown \/ ScrapeCrash \/ ScrapePush \/ ScrapeReturn
  \/ MainCombine
  \/ Filter
  \/ MainTranslate
  \/ GoogleStart \/ GooglePass \/ GoogleTitle \/ GoogleSummary \/ GoogleReturn
  \/ DeepLStart \/ DeepLBatch \/ DeepLReturn
  \/ MainFinalize
  \/ Dedup \/ Sort \/ LimitItems

SpecMain == InitMain /\ [][NextMain]_vars


\* the pipeline under the condition of C14 that every awaited call returns or
\* raises: a step that can be taken is taken
SpecMainFair == SpecMain /\ WF_vars(NextMain)

-----------------------------------------------------------------------------
(* Claims on the dispatchers and the pipeline *)

\* the source fails: its URL cannot be fetched, or (a feed) the date of one
\* of its entries does not parse, or (a store) its scraper throws
SourceFails(source) ==
  \/ ~source.ok
  \/ /\ source.type = "rss"
     /\ \E k \in 1..Len(source.entries) :
          /\ source.entries[k].pubDate.valid = FALSE
          /\ source.entries[k].pubDate # NoDate

\* the item needs an article page: it has no image and it has a link
NeedsPage(item) == Falsy(item.image) /\ ~Falsy(item.link)

\* the items a feed hands on after the image backfill: of the items that need
\* a page the first OG_IMAGE_FETCH_LIMIT get the image of their page, if any
WithPageImages(source, list) ==
  [k \in 1..Len(list) |->
     IF /\ NeedsPage(list[k])
        /\ Cardinality({j \in 1..(k - 1) : NeedsPage(list[j])}) < OG_IMAGE_FETCH_LIMIT
        /\ ~Falsy(source.entries[k].page)
     THEN [list[k] EXCEPT !.image = source.entries[k].page]
     ELSE list[k]]

\* what a source contributes when it is the only source of the configuration
Alone(source) ==
  IF SourceFails(source) THEN <<>>
  ELSE IF source.type = "rss"
       THEN (IF rvariant = "og"
             THEN WithPageImages(source, FeedItems(rvariant, source))
             ELSE FeedItems(rvariant, source))
       ELSE IF KnownScraper(source.type) THEN ScrapedItems(source) ELSE <<>>

\* the items collected so far by the two dispatchers, feeds first
Collected == rssItems \o allItems

\* the collected items that came from source s
FromSource(s) ==
  LET at == SelectSeq(Positions(Collected), LAMBDA j : origin[j][1] = s)
  IN [n \in 1..Len(at) |-> Collected[at[n]]]

\* a dispatcher has returned
Returned == pc \in {"rss_returned", "scrape_returned"}

\* C12: when a dispatcher returns, a source that failed or threw has
\* contributed no item, and every other source it went through has
\* contributed exactly the items it contributes on its own
C12_FailureIsolated ==
  Returned =>
    /\ Len(origin) = Len(Collected)
    /\ \A s \in 1..Len(sources) :
         /\ SourceFails(sources[s]) => FromSource(s) = <<>>
         /\ s < src => FromSource(s) = Alone(sources[s])
         /\ s >= src => FromSource(s) = <<>>

\* a dispatcher has returned after a source that failed and a later source
\* of the same dispatcher that contributed items
C12_Witness ==
  /\ Returned
  /\ \E s, t \in 1..Len(sources) :
       /\ s < t /\ t < src
       /\ (sources[s].type = "rss") = (sources[t].type = "rss")
       /\ SourceFails(sources[s])
       /\ FromSource(t) # <<>>

\* the lists of the sources from the k-th on, one after the other
RECURSIVE ConcatAlone(_)
ConcatAlone(k) ==
  IF k > Len(sources) THEN <<>> ELSE Alone(sources[k]) \o ConcatAlone(k + 1)

\* the combined list has just been built
Combined == pc = "filter"

\* C13: the combined list is the concatenation of the lists of the sources in
\* the order of the configuration: an item of an earlier source precedes an
\* item of a later one, and the items of a source keep the order in which
\* the adapter emitted them
C13_ConcatenationInOrder ==
  Combined =>
    /\ items = ConcatAlone(1)
    /\ Len(origin) = Len(items)
    /\ \A a \in 1..Len(items) : items[a].source = sources[origin[a][1]].name
    /\ \A a, b \in 1..Len(items) :
         a < b => \/ origin[a][1] < origin[b][1]
                  \/ origin[a][1] = origin[b][1] /\ origin[a][2] < origin[b][2]

\* the combined list holds two items of a feed and an item of a store
C13_Witness ==
  /\ Combined
  /\ Len(rssItems) >= 2 /\ Len(productItems) >= 1
  /\ \E a, b \in 1..Len(items) : a < b /\ origin[a][1] = origin[b][1]

\* every source of the configuration fails
AllSourcesFail == \A s \in 1..Len(sources) : SourceFails(sources[s])

\* the run is over: the finalizer has yielded the collection
Finalized == pc = "finalized"

\* C14: whatever fetches and translation calls fail, the run reaches the end
\* of the finalizer and yields a collection; the collection is empty when
\* every source failed
C14_PipelineCompletes ==
  <>(Finalized /\ (AllSourcesFail => out = <<>>))

\* a finished run in which a source failed, another contributed a Japanese
\* item, and every translation call for that item failed
C14_Witness ==
  /\ Finalized
  /\ out # <<>>
  /\ \E s \in 1..Len(sources) : SourceFails(sources[s])
  /\ \E p \in 1..Len(outcome) : AllCallsFailed(p)

\* a finished run in which every source failed
C14_WitnessAllFail ==
  /\ Finalized
  /\ Len(sources) > 0
  /\ AllSourcesFail
  /\ out = <<>>

-----------------------------------------------------------------------------
(* Claims on the Translator: rate limiting *)

\* positions of the log that hold a backend request
Requests == {k \in 1..Len(events) : events[k].k = "req"}

\* positions of the log that hold a delay
Delays == {k \in 1..Len(events) : events[k].k = "delay"}

\* a request carries at most BATCH_SIZE items
BatchesBounded == \A k \in Requests : Cardinality(events[k].at) <= BATCH_SIZE

\* no text of an item is submitted twice
NoRetry ==
  \A a, b \in Requests :
     (a # b /\ events[a].at \cap events[b].at # {}) => events[a].part # events[b].part

\* exactly one delay lies between two consecutive requests, and no delay
\* lies anywhere else: none before the first request, none after the last
\* request of a finished run
DelaysOnlyBetweenBatches ==
  /\ \A a, b \in Requests :
        (a < b /\ \A c \in Requests : ~(a < c /\ c < b)) =>
           Cardinality({d \in Delays : a < d /\ d < b}) = 1
  /\ \A d \in Delays : \E a \in Requests : a < d
  /\ Translated => \A d \in Delays : \E b \in Requests : d < b

\* C21 as stated, for each version of the module: requests of at most 10
\* items, one delay between every two consecutive requests and nowhere else
\* (not inside a batch, not after the last batch), and no text of an item
\* submitted twice.
C21_RateLimit_AllVersions ==
  BatchesBounded /\ DelaysOnlyBetweenBatches /\ NoRetry

\* the Google version: a request carries one text of one item, a delay follows
\* each request at once, and a finished run has made two delays for each
\* Japanese item, whether or not a request was made for its text
DelayAfterEveryCall ==
  /\ \A k \in Requests :
        /\ Cardinality(events[k].at) = 1
        /\ k < Len(events) /\ events[k + 1].k = "delay"
  /\ Translated =>
        Cardinality(Delays) =
          2 * Cardinality({p \in 1..Len(items) : ~GooglePassesThrough(items[p])})

\* C21 amended: the DeepL version limits its rate as stated; the Google
\* version sends one text per request and delays after every call of
\* translateText, the last one included; neither version submits a text of an
\* item twice.
C21_RateLimit_PerVersion ==
  /\ NoRetry
  /\ BatchesBounded
  /\ tvariant = "deepl" => DelaysOnlyBetweenBatches
  /\ tvariant = "google" => DelayAfterEveryCall

\* C21 witness: the DeepL version finished a run of two batches, the first
\* one full, with one delay between them
C21_Witness ==
  /\ Translated /\ tvariant = "deepl"
  /\ Cardinality(Requests) = 2
  /\ \E k \in Requests : Cardinality(events[k].at) = BATCH_SIZE
  /\ Cardinality(Delays) = 1

\* the Google version finished a run that made requests, and its log ends
\* with a delay
C21_GoogleDelaysLast ==
  /\ Translated /\ tvariant = "google"
  /\ Requests # {}
  /\ events[Len(events)].k = "delay"

-----------------------------------------------------------------------------
(* Claims on Filter/Dedup: chain exclusion *)

\* the text of an item: its title, summary and originalTitle, those present,
\* with a space between them
TextOf(item) ==
  OrEmpty(item.title) \o <<32>> \o OrEmpty(item.summary) \o <<32>> \o OrEmpty(item.originalTitle)

\* the text names a chain of the denylist: a Japanese name anywhere, a Latin
\* name as a whole word in any case
NamesChain(text) ==
  \E n \in 1..Len(EXCLUDE_CHAINS_RAW) :
     LET name == EXCLUDE_CHAINS_RAW[n].pattern IN
     IF EXCLUDE_CHAINS_RAW[n].isJapanese
     THEN Includes(text, name)
     ELSE \E k \in 0..(Len(text) - Len(name)) :
             /\ ToLowerCase(SubSeq(text, k + 1, k + Len(name))) = ToLowerCase(name)
             /\ (k = 0 \/ ~IsWordUnit(text[k]))
             /\ (k + Len(name) = Len(text) \/ ~IsWordUnit(text[k + Len(name) + 1]))

\* the text holds a keep keyword, in any case
HoldsKeepKeyword(text) ==
  \E n \in 1..Len(KEEP_KEYWORDS) : Includes(ToLowerCase(text), ToLowerCase(KEEP_KEYWORDS[n]))

\* positions of the items with valid title and link whose normalized title no
\* earlier valid item has
FirstOfTitle(list) ==
  {k \in 1..Len(list) :
     /\ ~IsInvalid(list[k])
     /\ \A m \in 1..(k - 1) :
           IsInvalid(list[m]) \/ NormalizedTitle(list[m]) # NormalizedTitle(list[k])}

\* the item at position k of the input is not in the output
Dropped(k) == \A n \in 1..Len(out) : out[n] # items[k]

\* C22: in the chain-exclusion version of the filter an item with valid title
\* and link that is not a title duplicate is dropped if and only if its text
\* names a chain of the denylist and holds no keep keyword; with a keep
\* keyword it is kept although a chain is named.
C22_ChainExclusionWithKeep ==
  (Filtered /\ fvariant = "chain") =>
     \A k \in FirstOfTitle(items) :
        /\ Dropped(k) <=> (NamesChain(TextOf(items[k])) /\ ~HoldsKeepKeyword(TextOf(items[k])))
        /\ HoldsKeepKeyword(TextOf(items[k])) => ~Dropped(k)

\* C22 witness: the chain-exclusion version ran on two items that name a
\* chain, dropped the one without a keep keyword and kept the one with a keep
\* keyword
C22_Witness ==
  /\ pc = "filtered" /\ fvariant = "chain"
  /\ \E a, b \in FirstOfTitle(items) :
        /\ NamesChain(TextOf(items[a])) /\ ~HoldsKeepKeyword(TextOf(items[a]))
        /\ Dropped(a)
        /\ NamesChain(TextOf(items[b])) /\ HoldsKeepKeyword(TextOf(items[b]))
        /\ ~Dropped(b)

-----------------------------------------------------------------------------
(* main: the output object, in each version of fetch-news.js *)

\* longest list handed to the stages that end with the output object
MaxEmitLen == 2

\* null, as distinct from undefined (Absent)
Null == <<0 - 2>>

\* undefined in the place of a language (the languages are names here)
NoLanguage == "undefined"

\* a faulty variant of x || null that keeps nothing; the emitted fields are
\* tested against it
NeverKept(x) == Null

\* x || null
OrNull(x) == IF Falsy(x) \/ x = Null THEN Null ELSE x

\* the fields of a NormalizedItem
ItemFields ==
  {"id", "title", "summary", "link", "image", "source", "storeTag", "publishedAt",
   "category", "language", "translated", "price", "eventStart", "eventEnd",
   "originalTitle"}

\* the fields the output object lists, in each version of the script
OutputFields(version) ==
  LET first == {"id", "title", "summary", "link", "image", "source", "publishedAt",
                "category", "translated", "originalTitle"}
  IN  IF version = "store" THEN first \cup {"storeTag", "language", "price"}
      ELSE IF version = "event" THEN first \cup {"storeTag", "language", "eventStart", "eventEnd"}
      ELSE first

\* allItems.map((item) => ({ ... })) on one item; a field the version does not
\* list is undefined in the emitted object
EmitItem(version, item) ==
  LET listed(f, v) == IF f \in OutputFields(version) THEN v ELSE Absent IN
  [id |-> item.id, title |-> item.title, summary |-> item.summary, link |-> item.link,
   image |-> OrNull(item.image),
   source |-> item.source,
   storeTag |-> listed("storeTag", OrNull(item.storeTag)),
   publishedAt |-> item.publishedAt,
   category |-> item.category,
   language |-> IF "language" \in OutputFields(version) THEN item.language ELSE NoLanguage,
   translated |-> item.translated,
   price |-> listed("price", OrNull(item.price)),
   eventStart |-> listed("eventStart", OrNull(item.eventStart)),
   eventEnd |-> listed("eventEnd", OrNull(item.eventEnd)),
   originalTitle |-> IF Falsy(item.originalTitle) THEN Absent ELSE item.originalTitle]

\* an item with every field of a NormalizedItem; undefined is Absent
FullItem(link, title, language, image, storeTag, price, eventStart, eventEnd, date) ==
  [id |-> IdOfLink(link), title |-> title, summary |-> <<>>, link |-> link,
   language |-> language, translated |-> FALSE, originalTitle |-> Absent,
   publishedAt |-> date, image |-> image, source |-> <<115>>, storeTag |-> storeTag,
   category |-> <<110>>, price |-> price, eventStart |-> eventStart, eventEnd |-> eventEnd]

\* a price as extractPrice and scrapeJumpShop format it, an event date, a tag
TxtPrice == <<165, 49>>
TxtDay == <<50, 48, 50, 54>>
TxtTag == <<83>>

\* what the adapters installed with each version of the script emit: the
\* store adapters set storeTag and price (a text or null), the event adapters
\* storeTag, eventStart and eventEnd, the first adapters none of them
AdapterItems(version) ==
  {FullItem(l, t, lp[1],
            IF lp[2] THEN ImgFeed ELSE Null,
            IF version = "first" THEN Absent ELSE TxtTag,
            IF version = "store" THEN (IF lp[2] THEN TxtPrice ELSE Null) ELSE Absent,
            IF version = "event" THEN (IF lp[2] THEN TxtDay ELSE Null) ELSE Absent,
            IF version = "event" THEN (IF lp[2] THEN TxtDay ELSE Null) ELSE Absent,
            Time(IF lp[2] THEN 2 ELSE 1)) :
     l \in {LinkU, LinkV}, t \in {<<97>>, <<98>>},
     lp \in {<<"en", FALSE>>, <<"ja", TRUE>>}}

\* Japanese items of the event adapters whose title names a chain: without
\* summary, and with a summary that holds a keep keyword
ChainEmitItems ==
  {[FullItem(l, TxtLawson, "ja", Null, TxtTag, Absent, Null, Null, Time(1))
      EXCEPT !.summary = s] :
     l \in {LinkU, LinkV}, s \in {<<>>, TxtIchibanKuji}}

\* the versions of the script with the filter and the translator each was
\* installed with, and whether DEEPL_API_KEY is set
EmitBuilds ==
  {<<"store", "plain", "google", FALSE>>,
   <<"event", "chain", "google", FALSE>>,
   <<"first", "plain", "deepl", TRUE>>}

\* the stages from the filter to the output object, on the combined list
InitEmit ==
  /\ pc = "filter"
  /\ \E build \in EmitBuilds :
       /\ mvariant = build[1]
       /\ fvariant = build[2]
       /\ tvariant = build[3]
       /\ apiKey = build[4]
       /\ \/ items \in ListsUpTo(AdapterItems(build[1]), MaxEmitLen)
          \/ build[2] = "chain" /\ items \in {<<item>> : item \in ChainEmitItems}
  /\ emitted = <<>>
  /\ rvariant = "none"
  /\ sources = <<>>
  /\ src = 0
  /\ allItems = <<>>
  /\ cur = <<>>
  /\ fillAt = 0
  /\ fetched = 0
  /\ call = <<>>
  /\ ret = <<>>
  /\ rssItems = <<>>
  /\ productItems = <<>>
  /\ out = <<>>
  /\ out2 = <<>>
  /\ i = 0
  /\ results = <<>>
  /\ origin = <<>>
  /\ pending = Absent
  /\ events = <<>>
  /\ outcome = <<>>

\* items: allItems.map((item) => ({ ... })) of the output object
Emit ==
  /\ pc = "finalized"
  /\ emitted' = [n \in 1..Len(out) |-> EmitItem(mvariant, out[n])]
  /\ pc' = "emitted"
  /\ UNCHANGED stageVars
  /\ UNCHANGED <<origin, events, rvariant, mvariant, sources, src, allItems, cur, fillAt,
                 fetched, call, ret, rssItems, productItems>>

NextEmit ==
  \/ Filter
  \/ MainTranslate
  \/ GoogleStart \/ GooglePass \/ GoogleTitle \/ GoogleSummary \/ GoogleReturn
  \/ DeepLStart \/ DeepLBatch \/ DeepLReturn
  \/ MainFinalize
  \/ Dedup \/ Sort \/ LimitItems
  \/ Emit

SpecEmit == InitEmit /\ [][NextEmit]_vars

-----------------------------------------------------------------------------
(* Claims on what Filter/Dedup and the Finalizer leave of an item *)

\* a is what is left of b when some of its elements are taken out
Subsequence(a, b) ==
  \E f \in [1..Len(a) -> 1..Len(b)] :
     /\ \A k \in 1..Len(a) : a[k] = b[f[k]]
     /\ \A k, m \in 1..Len(a) : k < m => f[k] < f[m]

\* every element of a is an element of b, and a is not longer than b
OnlyDiscarded(a, b) ==
  /\ Len(a) <= Len(b)
  /\ \A n \in 1..Len(a) : \E k \in 1..Len(b) : a[n] = b[k]

\* the filter returned items of its input, in the order of the input; the
\* finalizer holds items of the list the Translator returned (which items
\* holds from the finalizer's entry on)
StagesOnlyDiscard ==
  /\ pc = "filtered" => Subsequence(out, items)
  /\ pc \in {"f_sort", "f_limit", "finalized", "emitted"} => OnlyDiscarded(out, items)

\* the fields an adapter may leave out or set to null
OptionalFields == {"image", "storeTag", "price", "eventStart", "eventEnd", "originalTitle"}

\* the field f of the item is set (every adapter sets the other fields)
IsSet(item, f) == f \notin OptionalFields \/ item[f] # Absent

\* the field f of the emitted object is undefined
IsUndefined(object, f) ==
  IF f = "language" THEN object[f] = NoLanguage ELSE object[f] = Absent

\* the emitted object at place n has, in each field of fields that the item
\* it is made from has set, the value of that field
Carries(n, fields) ==
  \A f \in fields : IsSet(out[n], f) => emitted[n][f] = out[n][f]

C23_FirstDropsLanguage ==
  /\ pc = "emitted" /\ mvariant = "first"
  /\ \E n \in 1..Len(emitted) : out[n].language = "en" /\ IsUndefined(emitted[n], "language")

-----------------------------------------------------------------------------
(* Claims on the HTML-scrape adapters: the selector cascade *)

\* the page with nothing but the elements its selector n matches
OnlyMatchesOf(page, n) ==
  [page EXCEPT !.matches = [m \in 1..Len(page.matches) |->
                              IF m = n THEN page.matches[m] ELSE <<>>],
               !.anchors = <<>>]

\* the base URL the adapter of the source makes its links absolute with
BaseOf(source) ==
  IF source.type = "animate-news" THEN ANIMATE_BASE
  ELSE IF source.type = "goodsmile" THEN GOODSMILE_BASE
  ELSE BANPRESTO_BASE

\* the sources of one fetched HTML page that a scraper ran on
OnePageSources ==
  {s \in 1..Len(sources) :
     /\ KnownScraper(sources[s].type) /\ sources[s].type # "jumpshop" /\ sources[s].ok
     /\ Len(sources[s].pages) = 1 /\ sources[s].pages[1].ok}

\* the first selector in list order that matches an element of the page
FirstInOrder(page, n) ==
  /\ n \in 1..Len(page.matches)
  /\ page.matches[n] # <<>>
  /\ \A m \in 1..(n - 1) : page.matches[m] = <<>>

-----------------------------------------------------------------------------
(* Claims on the HTML-scrape adapters: the per-source cap *)

\* the cap the adapters of a type are to keep: 10 for Animate news, 15 else
CapOf(type) == IF type = "animate-news" THEN ANIMATE_CAP ELSE BANPRESTO_CAP

\* C25: every run of an HTML-scrape or JSON-listing adapter returns at most
\* 15 items for its source (10 for an Animate-news source), whatever the
\* number of URLs, of matched elements or of listed products.
C25_PerSourceCap ==
  \A s \in 1..Len(sources) :
     (s < src /\ KnownScraper(sources[s].type)) =>
        Len(Emitted(s)) <= CapOf(sources[s].type)

-----------------------------------------------------------------------------
(* Claims on the JSON-API adapters: the banner denylist *)

\* the records of the answers of an API source that its adapter reads
RecordsRead(source) ==
  IF source.type = "collabo-cafe"
  THEN LET RECURSIVE From(_)
           From(k) == IF k > Len(source.pages) THEN <<>>
                      ELSE (IF source.pages[k].ok THEN source.pages[k].records ELSE <<>>)
                             \o From(k + 1)
       IN From(1)
  ELSE source.entries

\* the image the adapter found for the record item j was made from
ImageFound(j) ==
  LET source == sources[origin[j][1]]
      record == RecordsRead(source)[origin[j][2]]
  IN IF source.type = "animate-cafe" THEN record.image ELSE DetectedImage(record)

\* C26: no item emitted by a JSON-API adapter (collabo-cafe, animate-wp,
\* animate-cafe) has an image that holds a denylisted banner pattern in any
\* letter case; an item whose detected image matches has image null, and
\* every other item has the detected image.
C26_NoBannerImage ==
  \A j \in 1..Len(allItems) :
     /\ ~isBannerImage(allItems[j].image)
     /\ allItems[j].image = IF isBannerImage(ImageFound(j)) THEN Absent ELSE ImageFound(j)

-----------------------------------------------------------------------------
(* Claims on the HTML-scrape adapters: titles and links of the items *)

\* a text of digits only
PurelyNumeric(t) == t # <<>> /\ \A k \in 1..Len(t) : t[k] >= 48 /\ t[k] <= 57

\* C27: no item an HTML-scrape adapter emits has a title that is purely
\* numeric, shorter than 3 characters or, in any letter case, in the
\* junk-title denylist, nor a link that contains 'javascript:' or is a bare
\* '#', whatever the raw title (also one with surrounding white space) and
\* the href.
C27_ScrapedTitleAndLinkValid ==
  \A j \in 1..Len(allItems) :
     /\ ~PurelyNumeric(allItems[j].title)
     /\ Len(allItems[j].title) >= 3
     /\ ToLowerCase(allItems[j].title) \notin JUNK_TITLES
     /\ ~Includes(allItems[j].link, JAVASCRIPT_COLON)
     /\ allItems[j].link # HASH

-----------------------------------------------------------------------------
(* Claims on the Translator: the order of the items *)

\* the items at output positions a < b stand in the input in the same order
InInputOrder(a, b) == origin[a] < origin[b]

\* the DeepL version split the input into two groups
Regrouped == tvariant = "deepl" /\ apiKey /\ JaPositions(items) # <<>>

\* C28 as stated, for every version of translate.js: of any two items of the
\* input, the one that comes first in the input comes first in the output.
C28_OrderPreserved_AllVersions ==
  Translated =>
    /\ Len(out) = Len(items)
    /\ \A a, b \in 1..Len(out) : a < b => InInputOrder(a, b)

\* C28 (amended): the Google version returns the items in input order; so
\* does the DeepL version when it has no key or finds no item to translate;
\* otherwise the DeepL version returns the items it passes through first,
\* then the items it translated, each group in input order.
C28_OrderPreserved_PerVersion ==
  Translated =>
    /\ Len(out) = Len(items)
    /\ \A a, b \in 1..Len(out) :
         a < b =>
           IF Regrouped
           THEN \/ /\ NeedsTranslation(items[origin[a]]) = NeedsTranslation(items[origin[b]])
                   /\ InInputOrder(a, b)
                \/ /\ ~NeedsTranslation(items[origin[a]])
                   /\ NeedsTranslation(items[origin[b]])
           ELSE InInputOrder(a, b)

\* C28 witness: the DeepL version has translated an item that stood before
\* an item it passes through, and returned the two the other way round
C28_Witness ==
  /\ Translated /\ Regrouped
  /\ \E a, b \in 1..Len(out) :
        /\ a < b /\ origin[b] < origin[a]
        /\ out[b].translated /\ out[b].originalTitle = items[origin[b]].title
        /\ out[a] = items[origin[a]]

\* the Google version has translated one of two items and passed the other
\* through, in input order
C28_GoogleKeepsOrder ==
  /\ Translated /\ tvariant = "google" /\ Len(out) = 2
  /\ origin = <<1, 2>>
  /\ out[1] # items[1] /\ out[2] = items[2]

-----------------------------------------------------------------------------
(* Claims on the emitted collection: titles *)

-----------------------------------------------------------------------------
(* Claims on the emitted collection: the chain exclusion *)

\* a text field of an emitted item as isChainCollab reads it (null || '')
TextOrNone(x) == IF x = Null THEN Absent ELSE x

\* C30: with the chain-exclusion filter installed, no item of the emitted
\* collection is a chain collaboration by isChainCollab applied to its
\* final title, summary and originalTitle: the text the Translator produced
\* is subject to the chain denylist as well.
C30_NoChainCollabEmitted ==
  (pc = "emitted" /\ fvariant = "chain") =>
    \A n \in 1..Len(emitted) :
       ~isChainCollab(emitted[n].title, emitted[n].summary,
                      TextOrNone(emitted[n].originalTitle))

=============================================================================
